---- MODULE Spec2Model ----
(***************************************************************************)
(* A model of the spectral decomposition engine of fastspecfit:            *)
(*   - ContinuumFit.__init__ : the A(V) and velocity-dispersion grids      *)
(*   - fnnls_continuum / ContinuumFit._fnnls_parallel : the NNLS solver    *)
(*     and its grid search                                                 *)
(*   - ContinuumFit.continuum_specfit / continuum_fastphot                 *)
(*   - build_linemodels, EMLineFit.chi2, EMLineFit._clean_linefit,         *)
(*     EMLineFit.fit                                                       *)
(*   - the batch driver (nyxgalaxy.main / nyxfit_one)                      *)
(* The grids are built in exact rationals <<num, den>>; the fits compute   *)
(* in floating point with a short significand.                             *)
(***************************************************************************)
EXTENDS Integers, Sequences, FiniteSets, TLC

VARIABLES
    ctor,       \* the literals ContinuumFit.__init__ builds its grids from
    grids,      \* the grids held by the ContinuumFit instance (or its status)
    cf,         \* the ContinuumFit instance used by the fits
    data,       \* the unpacked data of the object being fitted
    cs,         \* the running continuum fit: its position, locals and result
    lm,         \* the running build_linemodels call: its position and table
    lf,         \* the running emission-line fit of one object
    batch,      \* the run of the fitting script over its objects
    raw         \* the spectra of one object as read, before unpacking

vars == <<ctor, grids, cf, data, cs, lm, lf, batch, raw>>

None == "None"

-----------------------------------------------------------------------------
(* Exact rational arithmetic: a number is <<n, d>> with d > 0, in lowest   *)
(* terms.                                                                  *)

Abs(x) == IF x < 0 THEN -x ELSE x

RECURSIVE GCD(_, _)
GCD(a, b) == IF b = 0 THEN a ELSE GCD(b, a % b)

R(n, d) ==
    LET s == IF d < 0 THEN -1 ELSE 1
        g == GCD(Abs(n), Abs(d))
    IN  <<(s * n) \div g, (s * d) \div g>>

RI(n) == <<n, 1>>

RAdd(a, b) ==
    LET g == GCD(a[2], b[2])
    IN  R(a[1] * (b[2] \div g) + b[1] * (a[2] \div g), (a[2] \div g) * b[2])

RNeg(a) == <<-a[1], a[2]>>

RSub(a, b) == RAdd(a, RNeg(b))

RMul(a, b) ==
    LET g1 == GCD(Abs(a[1]), b[2])
        g2 == GCD(Abs(b[1]), a[2])
    IN  IF a[1] = 0 \/ b[1] = 0 THEN <<0, 1>>
        ELSE <<(a[1] \div g1) * (b[1] \div g2), (a[2] \div g2) * (b[2] \div g1)>>

RInv(a) == IF a[1] < 0 THEN <<-a[2], -a[1]>> ELSE <<a[2], a[1]>>

RDiv(a, b) == RMul(a, RInv(b))

RLt(a, b) == a[1] * b[2] < b[1] * a[2]

RLe(a, b) == a[1] * b[2] <= b[1] * a[2]

\* int(np.ceil(x)) of a rational x
RCeil(a) == -((-a[1]) \div a[2])

\* the sum of a sequence of rationals
RECURSIVE RSum(_)
RSum(s) == IF s = <<>> THEN <<0, 1>> ELSE RAdd(Head(s), RSum(Tail(s)))

Range(s) == {s[i] : i \in DOMAIN s}

-----------------------------------------------------------------------------
(* ContinuumFit.__init__: the trial-parameter grids.                       *)

\* np.linspace(start, stop, num)
linspace(start, stop, num) ==
    IF num = 1 THEN <<start>>
    ELSE [i \in 1..num |->
            RAdd(start, RMul(R(i - 1, num - 1), RSub(stop, start)))]

\* np.sort of a sequence of rationals (insertion sort)
RECURSIVE Insert(_, _)
Insert(x, s) ==
    IF s = <<>> THEN <<x>>
    ELSE IF RLe(x, Head(s)) THEN <<x>> \o s
    ELSE <<Head(s)>> \o Insert(x, Tail(s))

RECURSIVE np_sort(_)
np_sort(s) == IF s = <<>> THEN <<>> ELSE Insert(Head(s), np_sort(Tail(s)))

\* nvdisp / nAV: int(np.ceil((max - min) / d)), 0 replaced by 1
ngrid(lo, hi, d) ==
    LET n == RCeil(RDiv(RSub(hi, lo), d))
    IN  IF n = 0 THEN 1 ELSE n

\* the nominal value appended without the sort
with_nominal_unsorted(grid, nominal) ==
    IF nominal \in Range(grid) THEN grid
    ELSE grid \o <<nominal>>

\* "if not nominal in grid: grid = np.sort(np.hstack((grid, nominal)))"
with_nominal(grid, nominal) ==
    IF nominal \in Range(grid) THEN grid
    ELSE np_sort(grid \o <<nominal>>)

\* the velocity-dispersion grid
vdisp_grid(vdispmin, vdispmax, dvdisp, vdisp_nominal) ==
    with_nominal(linspace(vdispmin, vdispmax, ngrid(vdispmin, vdispmax, dvdisp)),
                 vdisp_nominal)

\* assert(AV[0] == 0.0)
AV_assert_ok(AV0) == AV0[1] = RI(0)

\* the A(V) grid (linear spacing)
AV_grid(AVmin, AVmax, dAV, AV_nominal) ==
    with_nominal(linspace(AVmin, AVmax, ngrid(AVmin, AVmax, dAV)), AV_nominal)

\* the literals of the source: (75.0, 400.0, 25.0, 150.0) and (0.0, 1.5, 0.1, 0.0)
vdisp_literals ==
    [lo |-> RI(75), hi |-> RI(400), d |-> RI(25), nominal |-> RI(150)]

AV_literals ==
    [lo |-> RI(0), hi |-> R(3, 2), d |-> R(1, 10), nominal |-> RI(0)]

\* bounds of the family of literals the constructor is checked on
MaxAVTenths == 6
MaxVdispSteps == 5

AV_family ==
    {AV_literals} \cup
    [lo : {RI(0), R(1, 10)},
     hi : {R(k, 10) : k \in 1..MaxAVTenths},
     d : {R(1, 10), R(1, 20), R(3, 10)},
     nominal : {RI(0), R(1, 20), R(1, 2), RI(2)}]

vdisp_family ==
    {vdisp_literals} \cup
    [lo : {RI(75)},
     hi : {RI(75 + 25 * k) : k \in 0..MaxVdispSteps},
     d : {RI(25), RI(40)},
     nominal : {RI(75), RI(150), RI(500)}]

InitGrid ==
    /\ ctor \in [AV : {f \in AV_family : RLe(f.lo, f.hi)}, vdisp : vdisp_family]
    /\ grids = [status |-> "new"]
    /\ cf = None /\ data = None /\ cs = None
    /\ lm = None /\ lf = None /\ batch = None /\ raw = None

\* ContinuumFit.__init__ (the grid part): build both grids; the assert on
\* AV[0] raises AssertionError and no instance exists
ContinuumFit_init ==
    /\ grids.status = "new"
    /\ LET v  == vdisp_grid(ctor.vdisp.lo, ctor.vdisp.hi, ctor.vdisp.d,
                            ctor.vdisp.nominal)
           a0 == linspace(ctor.AV.lo, ctor.AV.hi,
                          ngrid(ctor.AV.lo, ctor.AV.hi, ctor.AV.d))
       IN  IF ~AV_assert_ok(a0)
           THEN grids' = [status |-> "raised"]
           ELSE grids' = [status |-> "built",
                          vdisp |-> v,
                          vdisp_nominal |-> ctor.vdisp.nominal,
                          nvdisp |-> Len(v),
                          AV |-> AV_grid(ctor.AV.lo, ctor.AV.hi, ctor.AV.d,
                                         ctor.AV.nominal),
                          AV_nominal |-> ctor.AV.nominal,
                          nAV |-> Len(AV_grid(ctor.AV.lo, ctor.AV.hi, ctor.AV.d,
                                              ctor.AV.nominal))]
    /\ UNCHANGED <<ctor, cf, data, cs, lm, lf, batch, raw>>

NextGrid == ContinuumFit_init

SpecGrid == InitGrid /\ [][NextGrid]_vars

-----------------------------------------------------------------------------
(* Floating point: a float is <<m, e>>, the number m * 2^e, with m odd (or *)
(* <<0, 0>>) and |m| < 2^Precision.  Every operation rounds its result to  *)
(* the nearest float, so equal numbers are equal tuples.                   *)

\* the number of bits of the significand
Precision == 9

\* the results of dividing by zero
Inf == <<1, 9999>>

NaN == <<0, 9999>>

RECURSIVE BitLen(_)
BitLen(n) == IF n = 0 THEN 0 ELSE 1 + BitLen(n \div 2)

RECURSIVE Odd(_, _)
Odd(m, e) == IF m % 2 = 0 THEN Odd(m \div 2, e + 1) ELSE <<m, e>>

\* a * 2^e, for a > 0 with k bits too many, rounded to the nearest
FRound(a, e, k) ==
    IF k > 0 THEN Odd((a + 2^(k - 1)) \div 2^k, e + k) ELSE Odd(a, e)

FSign(s, r) == <<s * r[1], r[2]>>

\* m * 2^e rounded to Precision bits
FNorm(m, e) ==
    IF m = 0 THEN <<0, 0>>
    ELSE FSign(IF m < 0 THEN -1 ELSE 1,
               FRound(Abs(m), e, BitLen(Abs(m)) - Precision))

F(n) == FNorm(n, 0)

FNeg(a) == <<-a[1], a[2]>>

\* hi + lo, for the exponent of hi not below that of lo
FAlign(hi, lo) ==
    IF hi[2] - lo[2] > 2 * Precision THEN hi
    ELSE FNorm(hi[1] * 2^(hi[2] - lo[2]) + lo[1], lo[2])

FAdd(a, b) ==
    IF a[1] = 0 THEN b
    ELSE IF b[1] = 0 THEN a
    ELSE FAlign(IF a[2] >= b[2] THEN a ELSE b, IF a[2] >= b[2] THEN b ELSE a)

FSub(a, b) == FAdd(a, FNeg(b))

FMul(a, b) == FNorm(a[1] * b[1], a[2] + b[2])

FSq(a) == FMul(a, a)

\* a / b for b # 0
FDiv(a, b) ==
    FNorm((IF (a[1] < 0) # (b[1] < 0) THEN -1 ELSE 1)
            * ((2 * Abs(a[1]) * 2^(2 * Precision - 1) + Abs(b[1])) \div (2 * Abs(b[1]))),
          a[2] - b[2] - (2 * Precision - 1))

FInv(a) == FDiv(<<1, 0>>, a)

FLt(a, b) == FSub(a, b)[1] < 0

FLe(a, b) == FSub(a, b)[1] <= 0

\* the integer part of a float >= 0
FInt(a) == IF a[2] >= 0 THEN a[1] * 2^a[2] ELSE a[1] \div 2^(-a[2])

\* the float nearest to the fraction n / d, and to an exact rational
FR(n, d) == FDiv(F(n), F(d))

float(r) == FR(r[1], r[2])

floats(s) == [i \in 1..Len(s) |-> float(s[i])] \o <<>>

RECURSIVE FSum(_)
FSum(s) == IF s = <<>> THEN <<0, 0>> ELSE FAdd(Head(s), FSum(Tail(s)))

Zero == <<0, 0>>

\* an array with its elements computed: a sequence
np_array(f) == f \o <<>>

-----------------------------------------------------------------------------
(* The NNLS solver: fnnls_continuum and the helpers it is given.           *)
(* A matrix [npix, nage] is a sequence of rows; a grid [npix, nage, nx]    *)
(* is a sequence, over the trial values, of such matrices.                 *)

\* np.sqrt of an inverse variance; the inverse variances of the model are
\* perfect squares
np_sqrt(a) == F(CHOOSE r \in 0..FInt(a) : r * r = FInt(a))

\* number of columns of a matrix whose rows are m
ncol(m) == IF m = <<>> THEN 0 ELSE Len(m[1])

\* modelflux.dot(coeff): one value per pixel
dot(m, coeff) ==
    np_array([p \in 1..Len(m) |-> FSum(np_array([j \in 1..Len(coeff) |-> FMul(m[p][j], coeff[j])]))])

\* modelflux * ww[:, np.newaxis]
scale_rows(m, ww) ==
    np_array([p \in 1..Len(m) |-> np_array([j \in 1..Len(m[p]) |-> FMul(m[p][j], ww[p])])])

\* ZZ.T.dot(ZZ)
ZtZ(ZZ, n) ==
    np_array([j \in 1..n |-> np_array([k \in 1..n |->
        FSum(np_array([p \in 1..Len(ZZ) |-> FMul(ZZ[p][j], ZZ[p][k])]))])])

\* ZZ.T.dot(xx)
Ztx(ZZ, xx, n) ==
    np_array([j \in 1..n |-> FSum(np_array([p \in 1..Len(ZZ) |-> FMul(ZZ[p][j], xx[p])]))])

\* the least-squares objective c' AtA c - 2 c' Aty
objective(AtA, Aty, c) ==
    FSub(FSum(np_array([j \in 1..Len(c) |->
                  FMul(c[j], FSum(np_array([k \in 1..Len(c) |-> FMul(AtA[j][k], c[k])])))])),
         FMul(F(2), FSum(np_array([j \in 1..Len(c) |-> FMul(c[j], Aty[j])]))))

\* the solution of the 2 x 2 normal equations whose determinant is det
cramer(AtA, Aty, det) ==
    IF det = Zero THEN <<>>
    ELSE << <<FDiv(FSub(FMul(AtA[2][2], Aty[1]), FMul(AtA[1][2], Aty[2])), det),
              FDiv(FSub(FMul(AtA[1][1], Aty[2]), FMul(AtA[2][1], Aty[1])), det)>> >>

\* the solution with template j alone
solve_one(AtA, Aty, j) ==
    IF AtA[j][j] = Zero THEN <<>>
    ELSE <<np_array([i \in 1..Len(Aty) |->
              IF i = j THEN FDiv(Aty[j], AtA[j][j]) ELSE Zero])>>

\* the unconstrained least-squares solution restricted to the templates of S
\* (the others are 0); <<>> when the restricted system is singular
solve_on(AtA, Aty, S) ==
    IF S = {} THEN <<np_array([j \in 1..Len(Aty) |-> Zero])>>
    ELSE IF Cardinality(S) = 1 THEN solve_one(AtA, Aty, CHOOSE i \in S : TRUE)
    ELSE cramer(AtA, Aty,
                FSub(FMul(AtA[1][1], AtA[2][2]), FMul(AtA[1][2], AtA[2][1])))

\* the restricted solutions that are >= 0, each with its objective
feasible(AtA, Aty) ==
    {<<objective(AtA, Aty, c), c>> :
        c \in {d \in UNION {Range(solve_on(AtA, Aty, S)) : S \in SUBSET (1..Len(Aty))} :
                  \A j \in 1..Len(d) : FLe(Zero, d[j])}}

\* those of the smallest objective
minimal(scored) == {t \in scored : \A u \in scored : FLe(t[1], u[1])}

\* the one with the fewest non-zero coefficients
sparsest(best) ==
    (CHOOSE t \in best :
        \A u \in best : Cardinality({j \in 1..Len(t[2]) : t[2][j] # Zero})
                          <= Cardinality({j \in 1..Len(u[2]) : u[2][j] # Zero}))[2]

\* fastspecfit.fnnls.fnnls(AtA, Aty): the non-negative least-squares solution,
\* for at most two templates: the best of the feasible restricted solutions
fnnls(AtA, Aty) == sparsest(minimal(feasible(AtA, Aty)))

\* np.sum(ivar * (flux - modelflux.dot(coeff))**2)
chi2_model(flux, ivar, model) ==
    FSum(np_array([p \in 1..Len(flux) |-> FMul(ivar[p], FSq(FSub(flux[p], model[p])))]))

chi2_of(flux, ivar, modelflux, coeff) == chi2_model(flux, ivar, dot(modelflux, coeff))

\* return warn, coeff, chi2
with_chi2(coeff, flux, ivar, modelflux) ==
    [warn |-> FALSE, coeff |-> coeff, chi2 |-> chi2_of(flux, ivar, modelflux, coeff)]

\* the plain least-squares solution (no sign constraint), zeros if singular
lstsq(c, n) == IF c = <<>> THEN np_array([j \in 1..n |-> Zero]) ELSE c[1]

\* the same with plain least squares in place of fnnls
fnnls_continuum_lstsq(ZZ, xx, flux, ivar, modelflux) ==
    with_chi2(lstsq(solve_on(ZtZ(ZZ, ncol(modelflux)), Ztx(ZZ, xx, ncol(modelflux)),
                             1..ncol(modelflux)), ncol(modelflux)),
              flux, ivar, modelflux)

\* fnnls_continuum(ZZ, xx, flux, ivar, modelflux, get_chi2=True)
fnnls_continuum(ZZ, xx, flux, ivar, modelflux) ==
    with_chi2(fnnls(ZtZ(ZZ, ncol(modelflux)), Ztx(ZZ, xx, ncol(modelflux))),
              flux, ivar, modelflux)

-----------------------------------------------------------------------------
(* ContinuumFit._fnnls_parallel: the fixed solve and the grid search.      *)

\* the bounds of a Python slice index on a sequence of n elements
pyindex(i, n) ==
    IF i < 0 THEN (IF i + n < 0 THEN 0 ELSE i + n) ELSE (IF i > n THEN n ELSE i)

\* xparam[start:stop] of Python, for 0-based start and stop: a negative start
\* counts from the end
pyslice(s, start, stop) ==
    SubSeq(s, pyindex(start, Len(s)) + 1, pyindex(stop, Len(s)))

\* fastspecfit.util.find_minima(chi2grid)[0]: the (0-based) index of the
\* minimum of the chi-square curve, the first one if it is reached twice
find_minima(chi2grid) ==
    (CHOOSE i \in 1..Len(chi2grid) :
        /\ \A k \in 1..Len(chi2grid) : FLe(chi2grid[i], chi2grid[k])
        /\ \A k \in 1..(i - 1) : chi2grid[k] # chi2grid[i]) - 1

\* the slope of the chord from point i to point k
chord(x, y, i, k) == FDiv(FSub(y[k], y[i]), FSub(x[k], x[i]))

\* the coefficients of the parabola y = a x^2 + b x + c through three points
parabola_a(x, y) ==
    FDiv(FSub(chord(x, y, 2, 3), chord(x, y, 1, 2)), FSub(x[3], x[1]))

parabola_b(x, y, a) == FSub(chord(x, y, 1, 2), FMul(a, FAdd(x[1], x[2])))

parabola_c(x, y, a, b) == FSub(FSub(y[1], FMul(a, FSq(x[1]))), FMul(b, x[1]))

\* the vertex of the parabola: x0, y0, and 1 / |a| for the squared width
vertex(a, b, c) ==
    IF a = Zero
    THEN [raised |-> TRUE, x0 |-> Zero, xerr2 |-> Zero, y0 |-> Zero, warn |-> 1]
    ELSE [raised |-> FALSE,
          x0 |-> FNeg(FDiv(b, FMul(F(2), a))),
          xerr2 |-> IF a[1] > 0 THEN FInv(a) ELSE FInv(FNeg(a)),
          y0 |-> FSub(c, FDiv(FSq(b), FMul(F(4), a))),
          warn |-> IF a[1] > 0 THEN 0 ELSE 1]

vertex_ab(x, y, a, b) == vertex(a, b, parabola_c(x, y, a, b))

vertex_a(x, y, a) == vertex_ab(x, y, a, parabola_b(x, y, a))

\* fastspecfit.util.minfit(x, y): fit y = y0 + ((x - x0) / xerr)^2 to the
\* minimum and its two neighbours.  Fewer than three points: no refinement
\* (warn set).  No curvature: the fit throws.  xerr2 is xerr squared.
minfit(x, y) ==
    IF Len(x) < 3 THEN [raised |-> FALSE, x0 |-> F(-1), xerr2 |-> F(-1),
                        y0 |-> F(-1), warn |-> 1]
    ELSE vertex_a(x, y, parabola_a(x, y))

\* the grid interval [xparam[i], xparam[i + 1]) that holds xbest
np_searchsorted(xbest, xparam) ==
    CHOOSE k \in 1..(Len(xparam) - 1) :
        FLe(xparam[k], xbest) /\ FLt(xbest, xparam[k + 1])

np_interp_in(xbest, xparam, i) ==
    FAdd(F(i - 1), FDiv(FSub(xbest, xparam[i]), FSub(xparam[i + 1], xparam[i])))

\* np.interp(xbest, xparam, xindx): the fractional index of xbest in the grid,
\* clamped to the ends of the grid
np_interp(xbest, xparam) ==
    IF FLe(xbest, xparam[1]) THEN Zero
    ELSE IF FLe(xparam[Len(xparam)], xbest) THEN F(Len(xparam) - 1)
    ELSE np_interp_in(xbest, xparam, np_searchsorted(xbest, xparam))

interp1d_in(coeff, t, i) ==
    np_array([j \in 1..Len(coeff[1]) |->
        FAdd(coeff[i][j], FMul(FSub(t, F(i - 1)), FSub(coeff[i + 1][j], coeff[i][j])))])

\* interp1d(xindx, coeff, axis=0)(t): linear interpolation of the coefficient
\* vectors along the grid index
interp1d(coeff, t) ==
    interp1d_in(coeff, t, IF t = F(Len(coeff) - 1) THEN Len(coeff) - 1 ELSE FInt(t) + 1)

\* the handling of what minfit returned or threw:
\*   except: imin, xbest, xerr, chi2min, warn = 0, 0.0, 0.0, 0.0, 1
\*   if warn == 0: xivar = 1 / xerr**2  else: chi2min, xivar, xbest = 0, 0, xparam[0]
\* npts is the number of points handed to minfit.
handle_warn(xparam, imin, npts, fit) ==
    IF fit.raised
    THEN [imin |-> 0, npts |-> npts, raised |-> TRUE, warn |-> 1,
          chi2min |-> Zero, xivar |-> Zero, xbest |-> xparam[1]]
    ELSE IF fit.warn = 0
    THEN [imin |-> imin, npts |-> npts, raised |-> FALSE, warn |-> 0,
          chi2min |-> fit.y0, xivar |-> FInv(fit.xerr2), xbest |-> fit.x0]
    ELSE [imin |-> imin, npts |-> npts, raised |-> FALSE, warn |-> fit.warn,
          chi2min |-> Zero, xivar |-> Zero, xbest |-> xparam[1]]

\* minfit on the points mid-1 .. mid+1 (0-based) of the grid
minfit_around(xparam, chi2grid, imin, mid) ==
    handle_warn(xparam, imin, Len(pyslice(xparam, mid - 1, mid + 2)),
                minfit(pyslice(xparam, mid - 1, mid + 2),
                       pyslice(chi2grid, mid - 1, mid + 2)))

\* the middle point moved inside the grid
clamp(imin, n) == IF imin = 0 THEN 1 ELSE IF imin = n - 1 THEN n - 2 ELSE imin

\* the minimisation of the chi-square curve without the edge handling: the
\* three points are always taken from inside the grid
minimize_chi2_clamped(xparam, chi2grid) ==
    minfit_around(xparam, chi2grid, find_minima(chi2grid),
                  clamp(find_minima(chi2grid), Len(xparam)))

\* the try / except around find_minima and minfit:
\*   imin = find_minima(chi2grid)[0]
\*   xbest, xerr, chi2min, warn = minfit(xparam[imin-1:imin+2], chi2grid[imin-1:imin+2])
minimize_chi2(xparam, chi2grid) ==
    minfit_around(xparam, chi2grid, find_minima(chi2grid), find_minima(chi2grid))

\* ww = np.sqrt(ivar)
sqrt_ivar(ivar) == np_array([p \in 1..Len(ivar) |-> np_sqrt(ivar[p])])

\* xx = flux * ww
weighted(flux, ww) == np_array([p \in 1..Len(flux) |-> FMul(flux[p], ww[p])])

solve_weighted(modelflux, flux, ivar, ww) ==
    fnnls_continuum(scale_rows(modelflux, ww), weighted(flux, ww), flux, ivar, modelflux)

\* _fnnls_parallel with xparam=None: the coefficients and chi2 of one model
fnnls_parallel_fixed(modelflux, flux, ivar) ==
    solve_weighted(modelflux, flux, ivar, sqrt_ivar(ivar))

\* one solve per trial value
trial_solves(modelflux, flux, ivar, ww) ==
    np_array([ii \in 1..Len(modelflux) |-> solve_weighted(modelflux[ii], flux, ivar, ww)])

\* the interpolation of the coefficients at xbest
\*   if xbest == xparam[0]: bestcoeff = coeff[0]  else: interp1d(...)(np.interp(...))
interpolate(interpolate_coeff, xparam, coeff, xbest) ==
    IF ~interpolate_coeff THEN None
    ELSE IF xbest = xparam[1] THEN coeff[1]
    ELSE interp1d(coeff, np_interp(xbest, xparam))

\* what the search returns (and, for the record, what it went through)
search_result(xparam, interpolate_coeff, coeff, chi2grid, m) ==
    [searched |-> TRUE,
     chi2min |-> m.chi2min, xbest |-> m.xbest, xivar |-> m.xivar,
     bestcoeff |-> interpolate(interpolate_coeff, xparam, coeff, m.xbest),
     coeff |-> coeff, chi2grid |-> chi2grid,
     imin |-> m.imin, npts |-> m.npts, raised |-> m.raised, warn |-> m.warn,
     imin0 |-> find_minima(chi2grid)]

minimize_grid(xparam, interpolate_coeff, coeff, chi2grid) ==
    search_result(xparam, interpolate_coeff, coeff, chi2grid,
                  minimize_chi2(xparam, chi2grid))

minimize_solves(xparam, interpolate_coeff, rr) ==
    minimize_grid(xparam, interpolate_coeff,
                  np_array([ii \in 1..Len(rr) |-> rr[ii].coeff]),
                  np_array([ii \in 1..Len(rr) |-> rr[ii].chi2]))

\* _fnnls_parallel with a grid xparam: one solve per trial value, then the
\* minimisation of the chi-square curve and, optionally, the interpolation of
\* the coefficients.  modelflux[ii] is modelflux[:, :, ii] of the source.
fnnls_parallel(modelflux, flux, ivar, xparam, interpolate_coeff) ==
    minimize_solves(xparam, interpolate_coeff,
                    trial_solves(modelflux, flux, ivar, sqrt_ivar(ivar)))

-----------------------------------------------------------------------------
(* The templates and the forward model (ContinuumTools).  The model keeps  *)
(* NPix template pixels, one per camera, and two templates (a young, blue  *)
(* one and an old, red one).  The physical curves are replaced by rational *)
(* ones of the same shape: attenuation that grows with A(V) and is         *)
(* stronger in the blue, broadening that mixes neighbouring pixels more    *)
(* the larger the velocity dispersion, dimming by 1 / (1 + z).             *)

\* the slope of the attenuation curve at each template pixel (blue to red)
klambda == <<FR(1, 2), FR(1, 4), F(0)>>

NPix == Len(klambda)

\* self.sspflux [npix, nage]
sspflux_model == << <<F(8), F(0)>>, <<F(4), F(4)>>, <<F(0), F(8)>> >>

\* self.sspinfo['age'] and self.cosmo.age(redshift), in units of 0.1 Gyr
sspinfo_age == <<10, 50>>

cosmo_age(redshift) ==
    IF FLe(redshift, F(0)) THEN 138
    ELSE IF FLe(redshift, F(1)) THEN 59
    ELSE 22

\* dust_attenuation(wave, AV): the transmission at every template pixel
dust_attenuation(AV) == np_array([p \in 1..NPix |-> FSub(F(1), FMul(AV, klambda[p]))])

\* self.pixkms, in the units that make sigma = vdisp / pixkms the weight of
\* a neighbouring pixel
pixkms == 600

\* the pixel index p reflected into 1..n
reflect(p, n) == IF p < 1 THEN 1 ELSE IF p > n THEN n ELSE p

\* gaussian_filter1d(sspflux, sigma, axis=0): the smoothing along the pixel
\* axis, a neighbouring pixel weighing sigma
gaussian_filter1d(flux2d, sigma) ==
    np_array([p \in 1..Len(flux2d) |-> np_array([j \in 1..Len(flux2d[p]) |->
        FAdd(FMul(FSub(F(1), FMul(F(2), sigma)), flux2d[p][j]),
             FMul(sigma, FAdd(flux2d[reflect(p - 1, Len(flux2d))][j],
                              flux2d[reflect(p + 1, Len(flux2d))][j])))])])

\* convolve_vdisp(sspflux, vdisp): no-op for vdisp <= 0, else the smoothing
\* along the pixel axis (edges reflected)
convolve_vdisp(flux2d, vdisp) ==
    IF FLe(vdisp, Zero) THEN flux2d
    ELSE gaussian_filter1d(flux2d, FDiv(vdisp, F(pixkms)))

\* sspflux * atten[:, np.newaxis]
apply_atten(flux2d, atten) == scale_rows(flux2d, atten)

\* sspflux[:, agekeep]
keep_ages(flux2d, agekeep) ==
    np_array([p \in 1..Len(flux2d) |-> np_array([k \in 1..Len(agekeep) |-> flux2d[p][agekeep[k]]])])

\* every template, whatever its age
younger_than_universe_all(redshift) ==
    np_array([i \in 1..Len(sspinfo_age) |-> i])

\* younger_than_universe(redshift): the (1-based) indices of the templates
\* not older than the universe at that redshift
younger_than_universe(redshift) ==
    LET RECURSIVE pick(_)
        pick(i) == IF i > Len(sspinfo_age) THEN <<>>
                   ELSE IF sspinfo_age[i] <= cosmo_age(redshift)
                        THEN <<i>> \o pick(i + 1)
                        ELSE pick(i + 1)
    IN  pick(1)

\* the template pixel seen by each camera
camera_pixel(cam) == IF cam = "b" THEN 1 ELSE IF cam = "r" THEN 2 ELSE 3

\* if AV: sspflux * atten
redden(flux2d, AV) ==
    IF AV = <<>> THEN flux2d ELSE apply_atten(flux2d, dust_attenuation(AV[1]))

\* if vdisp: convolve_vdisp(sspflux, vdisp)
broaden(flux2d, vdisp) ==
    IF vdisp = <<>> THEN flux2d ELSE convolve_vdisp(flux2d, vdisp[1])

\* if redshift: factor = ... / (1 + redshift)  else: factor = 1
zfactor(redshift) == IF redshift = Zero THEN F(1) ELSE FInv(FAdd(F(1), redshift))

\* zsspflux = sspflux * factor
redshifted(flux2d, factor) ==
    np_array([p \in 1..Len(flux2d) |-> np_array([j \in 1..Len(flux2d[p]) |->
        FMul(flux2d[p][j], factor)])])

\* the resampling onto the pixels of the cameras, concatenated
resample(zssp, cameras) ==
    np_array([c \in 1..Len(cameras) |-> zssp[camera_pixel(cameras[c])]])

\* SSP2data(..., specwave, specres, cameras, synthphot=False) for a 2-D grid:
\* optional reddening (AV = <<>> for None), optional broadening (vdisp = <<>>
\* for None), the redshift factor, and the resampling onto the pixels of the
\* cameras, concatenated
SSP2data(flux2d, redshift, AV, vdisp, cameras) ==
    resample(redshifted(broaden(redden(flux2d, AV), vdisp), zfactor(redshift)),
             cameras)

\* self.bands and self.bands_to_fit (W2 is never fitted), and the template
\* pixel each band is synthesized from
bands == <<"g", "r", "z", "W2">>

bands_to_fit == <<1, 1, 1, 0>>

band_pixel == <<1, 2, 3, 3>>

\* the synthesis of every band from the redshifted templates
get_ab_maggies(zssp) == np_array([b \in 1..Len(bands) |-> zssp[band_pixel[b]]])

\* SSP2data(..., specwave=None, specres=None): the synthesized photometry
\* [nband, nage] of a 2-D grid
SSP2phot(flux2d, redshift, AV) ==
    get_ab_maggies(redshifted(redden(flux2d, AV), zfactor(redshift)))

\* the reduced literals the fitted instance is built from: three A(V) trial
\* values and two velocity-dispersion values plus the nominal one
AV_small == [lo |-> RI(0), hi |-> RI(2), d |-> R(3, 4), nominal |-> RI(0)]

vdisp_small == [lo |-> RI(75), hi |-> RI(300), d |-> RI(200), nominal |-> RI(150)]

\* the instance with the grids AV and vd
ContinuumFit_grids(solve_vdisp, AV, vd) ==
    [solve_vdisp |-> solve_vdisp, constrain_age |-> TRUE,
     vdisp |-> vd, vdisp_nominal |-> float(vdisp_small.nominal),
     nvdisp |-> Len(vd),
     AV |-> AV, AV_nominal |-> float(AV_small.nominal), nAV |-> Len(AV),
     nage |-> Len(sspinfo_age),
     sspflux |-> sspflux_model,
     sspflux_dustnomvdisp |->
        np_array([i \in 1..Len(AV) |->
            convolve_vdisp(apply_atten(sspflux_model, dust_attenuation(AV[i])),
                           float(vdisp_small.nominal))])]

\* ContinuumFit(solve_vdisp=...): the grids and the cached template grid
\* sspflux_dustnomvdisp [nAV][npix][nage]
ContinuumFit(solve_vdisp) ==
    ContinuumFit_grids(solve_vdisp,
        floats(AV_grid(AV_small.lo, AV_small.hi, AV_small.d, AV_small.nominal)),
        floats(vdisp_grid(vdisp_small.lo, vdisp_small.hi, vdisp_small.d,
                          vdisp_small.nominal)))

-----------------------------------------------------------------------------
(* The objects handed to the continuum fits (the dictionary built by       *)
(* unpack_one_spectrum) and the two fit sequences.                         *)

\* the largest flux of a pixel or a band, and the fluxes of the objects
MaxFlux == 4

FluxValues == {0, 1, MaxFlux}

\* the line masks of the objects: no pixel, or every pixel
Linemasks == {<<FALSE, FALSE, FALSE>>, <<TRUE, TRUE, TRUE>>}

\* the inverse variances of a pixel: masked, or one of two weights
IvarValues == {F(0), F(1)}

Redshifts == {F(0), F(1), F(3)}

all_cameras == <<"b", "r", "z">>

\* specdata['snr'][icam] = np.median(flux * np.sqrt(ivar)) of a camera of
\* one pixel
unpack_snr(flux, ivar) == FMul(flux, np_sqrt(ivar))

\* an object with spectra in all three cameras, one pixel each
SpecObject(z, flux, ivar, linemask) ==
    [zredrock |-> z, cameras |-> all_cameras,
     flux |-> np_array([c \in 1..3 |-> <<F(flux[c])>>]),
     ivar |-> np_array([c \in 1..3 |-> <<ivar[c]>>]),
     linemask |-> np_array([c \in 1..3 |-> <<linemask[c]>>]),
     snr |-> np_array([c \in 1..3 |-> unpack_snr(F(flux[c]), ivar[c])]),
     flam |-> None, flam_ivar |-> None]

\* an object with photometry only
PhotObject(z, flam, flam_ivar) ==
    [zredrock |-> z, cameras |-> <<>>, flux |-> <<>>, ivar |-> <<>>,
     linemask |-> <<>>, snr |-> <<>>,
     flam |-> np_array([b \in 1..Len(bands) |-> F(flam[b])]),
     flam_ivar |-> np_array([b \in 1..Len(bands) |-> F(flam_ivar[b])])]

SpecObjects ==
    {SpecObject(z, f, iv, mk) :
        z \in Redshifts, f \in [1..3 -> FluxValues], iv \in [1..3 -> IvarValues],
        mk \in Linemasks}

PhotObjects ==
    {PhotObject(z, f, iv) :
        z \in Redshifts,
        f \in {g \in [1..Len(bands) -> FluxValues] : g[Len(bands)] = 1},
        iv \in [1..Len(bands) -> {0, 1}]}

\* np.hstack of per-camera arrays
RECURSIVE hstack(_)
hstack(ss) == IF ss = <<>> THEN <<>> ELSE Head(ss) \o hstack(Tail(ss))

\* no grid search was run
no_search == [searched |-> FALSE]

\* the record of a fit that has not started
new_fit(mode) ==
    [mode |-> mode, pc |-> "start", raised |-> "",
     SNR |-> None, agekeep |-> None, flux |-> None, ivar |-> None,
     AVsearch |-> no_search, AVbest |-> None, AVivar |-> None, AVcoeff |-> None,
     compute_vdisp |-> None, vdsearch |-> no_search,
     vdispbest |-> None, vdispivar |-> None,
     nage |-> None, coeff |-> None, chi2min |-> None, result |-> None]

InitCont ==
    /\ ctor = [AV |-> AV_small, vdisp |-> vdisp_small]
    /\ grids = [status |-> "unused"]
    /\ \/ /\ cf \in {ContinuumFit(sv) : sv \in BOOLEAN}
          /\ data \in SpecObjects
          /\ cs = new_fit("specfit")
       \/ /\ cf = ContinuumFit(FALSE)
          /\ data \in PhotObjects
          /\ cs = new_fit("fastphot")
    /\ lm = None /\ lf = None /\ batch = None /\ raw = None

\* result['CONTINUUM_SNR_<cam>'] = data['snr'][icam], for icam, cam in
\* enumerate(data['cameras']); the columns start at 0
result_SNR(d) ==
    [cam \in {"b", "r", "z"} |->
        IF \E i \in 1..Len(d.cameras) : d.cameras[i] = cam
        THEN d.snr[CHOOSE i \in 1..Len(d.cameras) : d.cameras[i] = cam]
        ELSE Zero]

\* continuum_specfit, first part: the S/N columns, the stacked arrays, the
\* line mask, and the check of the inverse variances, which raises ValueError
continuum_specfit_prepare ==
    /\ cs.mode = "specfit" /\ cs.pc = "start"
    /\ LET specflux == hstack(data.flux)
           iv       == hstack(data.ivar)
           linemask == hstack(data.linemask)
           specivar == np_array([p \in 1..Len(iv) |-> IF linemask[p] THEN Zero ELSE iv[p]])
       IN  IF (\A p \in 1..Len(specivar) : specivar[p] = Zero)
              \/ (\E p \in 1..Len(specivar) : FLt(specivar[p], Zero))
           THEN cs' = [cs EXCEPT !.pc = "raised", !.raised = "ValueError",
                                 !.SNR = result_SNR(data),
                                 !.flux = specflux, !.ivar = specivar]
           ELSE cs' = [cs EXCEPT !.pc = "AV", !.SNR = result_SNR(data),
                                 !.flux = specflux, !.ivar = specivar,
                                 !.agekeep =
                                    IF cf.constrain_age
                                    THEN younger_than_universe(data.zredrock)
                                    ELSE np_array([i \in 1..cf.nage |-> i])]
    /\ UNCHANGED <<ctor, grids, cf, data, lm, lf, batch, raw>>

\* the parameter a fit sequence goes on with after a grid search:
\*   if xivar > 0: keep xbest   else: xbest = nominal
adopt(search, nominal) ==
    IF FLt(Zero, search.xivar) THEN search.xbest ELSE nominal

\* what continuum_specfit keeps of the search for A(V)
specfit_AV_found(search) ==
    [cs EXCEPT !.pc = "vdisp", !.nage = Len(cs.agekeep),
               !.AVsearch = search,
               !.AVbest = adopt(search, cf.AV_nominal),
               !.AVivar = search.xivar,
               !.AVcoeff = search.bestcoeff]

\* continuum_specfit: the search for A(V) on the cached grid (nominal
\* velocity dispersion)
specfit_fit_AV ==
    /\ cs.mode = "specfit" /\ cs.pc = "AV"
    /\ cs' = specfit_AV_found(
                 fnnls_parallel(
                     np_array([i \in 1..cf.nAV |->
                        SSP2data(keep_ages(cf.sspflux_dustnomvdisp[i], cs.agekeep),
                                 data.zredrock, <<>>, <<>>, data.cameras)]),
                     cs.flux, cs.ivar, cf.AV, cf.solve_vdisp))
    /\ UNCHANGED <<ctor, grids, cf, data, lm, lf, batch, raw>>

\* the same test on the two reddest cameras
compute_vdisp_reddest(SNR, redshift) ==
    (FLt(F(3), SNR["r"]) /\ FLt(F(3), SNR["z"])) /\ FLt(redshift, F(1))

\* compute_vdisp = (SNR_B > 3 and SNR_R > 3) and redshift < 1.0
compute_vdisp(SNR, redshift) ==
    (FLt(F(3), SNR["b"]) /\ FLt(F(3), SNR["r"])) /\ FLt(redshift, F(1))

\* what continuum_specfit keeps of the search for the velocity dispersion,
\* which is run only if solve_vdisp or compute_vdisp
specfit_vdisp_found(cv, search) ==
    IF cf.solve_vdisp \/ cv
    THEN [cs EXCEPT !.pc = "final", !.compute_vdisp = cv,
                    !.vdsearch = search,
                    !.vdispbest = adopt(search, cf.vdisp_nominal),
                    !.vdispivar = search.xivar]
    ELSE [cs EXCEPT !.pc = "final", !.compute_vdisp = cv,
                    !.vdispbest = cf.vdisp_nominal,
                    !.vdispivar = Zero]

\* continuum_specfit: the search for the velocity dispersion at the adopted
\* A(V), when asked for or when the data allow it; the nominal value otherwise
specfit_fit_vdisp ==
    /\ cs.mode = "specfit" /\ cs.pc = "vdisp"
    /\ cs' = specfit_vdisp_found(
                 compute_vdisp(cs.SNR, data.zredrock),
                 fnnls_parallel(
                     np_array([i \in 1..cf.nvdisp |->
                        SSP2data(keep_ages(cf.sspflux, cs.agekeep), data.zredrock,
                                 <<cs.AVbest>>, <<cf.vdisp[i]>>, data.cameras)]),
                     cs.flux, cs.ivar, cf.vdisp, FALSE))
    /\ UNCHANGED <<ctor, grids, cf, data, lm, lf, batch, raw>>

\* result['CONTINUUM_COEFF'][0][0:nage] = coeff, on a column of self.nage zeros
pack_coeff(coeff, nage, ntot) ==
    np_array([j \in 1..ntot |-> IF j <= nage /\ j <= Len(coeff) THEN coeff[j] ELSE Zero])

\* np.sum(ivar > 0)
count_positive(ivar) == Cardinality({p \in 1..Len(ivar) : FLt(Zero, ivar[p])})

\* the output row of continuum_specfit
specfit_result(coeff, chi2min) ==
    [cs EXCEPT !.pc = "done", !.coeff = coeff, !.chi2min = chi2min,
       !.result = [CONTINUUM_COEFF |-> pack_coeff(coeff, cs.nage, cf.nage),
                   CONTINUUM_RCHI2 |-> chi2min,
                   CONTINUUM_AV |-> cs.AVbest,
                   CONTINUUM_AV_IVAR |-> cs.AVivar,
                   CONTINUUM_VDISP |-> cs.vdispbest,
                   CONTINUUM_VDISP_IVAR |-> cs.vdispivar,
                   CONTINUUM_SNR |-> cs.SNR]]

\* chi2min /= np.sum(specivar > 0)
specfit_solved(fit) ==
    specfit_result(fit.coeff, FDiv(fit.chi2, F(count_positive(cs.ivar))))

\* continuum_specfit: the final solve at the adopted A(V) and velocity
\* dispersion, chi2min /= np.sum(specivar > 0), and the output row
specfit_final ==
    /\ cs.mode = "specfit" /\ cs.pc = "final"
    /\ cs' = specfit_solved(
                 fnnls_parallel_fixed(
                     SSP2data(keep_ages(cf.sspflux, cs.agekeep), data.zredrock,
                              <<cs.AVbest>>, <<cs.vdispbest>>, data.cameras),
                     cs.flux, cs.ivar))
    /\ UNCHANGED <<ctor, grids, cf, data, lm, lf, batch, raw>>

\* a float divided by a numpy integer: division by zero does not raise, it
\* gives nan for 0 / 0 and inf otherwise
np_divide(a, n) ==
    IF n # 0 THEN FDiv(a, F(n))
    ELSE IF a = Zero THEN NaN ELSE Inf

\* np.ndarray.item(np.where(self.AV == 0)[0])
inodust(AV) == CHOOSE i \in 1..Len(AV) : AV[i] = Zero

\* continuum_fastphot, first part: the fitted bands, and the branch taken
\* when no band has a positive inverse variance
continuum_fastphot_prepare ==
    /\ cs.mode = "fastphot" /\ cs.pc = "start"
    /\ LET objflam == data.flam
           objflamivar == np_array([b \in 1..Len(bands) |->
                              FMul(data.flam_ivar[b], F(bands_to_fit[b]))])
           agekeep == IF cf.constrain_age THEN younger_than_universe(data.zredrock)
                      ELSE np_array([i \in 1..cf.nage |-> i])
       IN  IF \A b \in 1..Len(bands) : objflamivar[b] = Zero
           THEN cs' = [cs EXCEPT !.pc = "pack", !.agekeep = agekeep,
                                 !.flux = objflam, !.ivar = objflamivar,
                                 !.AVbest = cf.AV_nominal, !.AVivar = Zero,
                                 !.nage = cf.nage, !.chi2min = Zero,
                                 !.coeff = np_array([j \in 1..cf.nage |-> Zero])]
           ELSE cs' = [cs EXCEPT !.pc = "AV", !.agekeep = agekeep,
                                 !.flux = objflam, !.ivar = objflamivar]
    /\ UNCHANGED <<ctor, grids, cf, data, lm, lf, batch, raw>>

\* what continuum_fastphot keeps of the search for A(V)
fastphot_AV_found(search) ==
    [cs EXCEPT !.pc = "final", !.nage = Len(cs.agekeep),
               !.AVsearch = search,
               !.AVbest = adopt(search, cf.AV_nominal),
               !.AVivar = search.xivar]

\* continuum_fastphot: the search for A(V) on the synthesized photometry
fastphot_fit_AV ==
    /\ cs.mode = "fastphot" /\ cs.pc = "AV"
    /\ cs' = fastphot_AV_found(
                 fnnls_parallel(
                     np_array([i \in 1..cf.nAV |->
                        SSP2phot(keep_ages(cf.sspflux_dustnomvdisp[i], cs.agekeep),
                                 data.zredrock, <<>>)]),
                     cs.flux, cs.ivar, cf.AV, FALSE))
    /\ UNCHANGED <<ctor, grids, cf, data, lm, lf, batch, raw>>

\* dof = np.sum(objflamivar > 0) - 1; chi2min /= dof
fastphot_solved(fit) ==
    [cs EXCEPT !.pc = "pack", !.coeff = fit.coeff,
               !.chi2min = np_divide(fit.chi2, count_positive(cs.ivar) - 1)]

\* continuum_fastphot: the final solve at the adopted A(V), and
\* dof = np.sum(objflamivar > 0) - 1; chi2min /= dof
fastphot_final ==
    /\ cs.mode = "fastphot" /\ cs.pc = "final"
    /\ cs' = fastphot_solved(
                 fnnls_parallel_fixed(
                     SSP2phot(keep_ages(cf.sspflux_dustnomvdisp[inodust(cf.AV)],
                                        cs.agekeep),
                              data.zredrock, <<cs.AVbest>>),
                     cs.flux, cs.ivar))
    /\ UNCHANGED <<ctor, grids, cf, data, lm, lf, batch, raw>>

\* continuum_fastphot: chi2min = 0 when no coefficient is positive, and the
\* output row
fastphot_pack ==
    /\ cs.mode = "fastphot" /\ cs.pc = "pack"
    /\ LET nopos == \A j \in 1..Len(cs.coeff) : ~FLt(Zero, cs.coeff[j])
           chi2min == IF nopos THEN Zero ELSE cs.chi2min
       IN  cs' = [cs EXCEPT !.pc = "done", !.chi2min = chi2min,
                    !.result = [CONTINUUM_COEFF |-> pack_coeff(cs.coeff, cs.nage, cf.nage),
                                CONTINUUM_RCHI2 |-> chi2min,
                                CONTINUUM_AV |-> cs.AVbest,
                                CONTINUUM_AV_IVAR |-> cs.AVivar]]
    /\ UNCHANGED <<ctor, grids, cf, data, lm, lf, batch, raw>>

NextCont ==
    \/ continuum_specfit_prepare
    \/ specfit_fit_AV
    \/ specfit_fit_vdisp
    \/ specfit_final
    \/ continuum_fastphot_prepare
    \/ fastphot_fit_AV
    \/ fastphot_final
    \/ fastphot_pack

SpecCont == InitCont /\ [][NextCont]_vars

-----------------------------------------------------------------------------
(* unpack_one_spectrum (io.py): the per-camera spectra of one object are   *)
(* masked, fully masked cameras are dropped, and the arrays of the         *)
(* surviving cameras are handed to continuum_specfit.                      *)

\* number of pixels of a camera
NPixCam == 4

\* the inverse variances of a camera as read (ivar0)
Ivar0Patterns == {<<0, 0, 0, 0>>, <<1, 1, 1, 1>>, <<1, 0, 0, 1>>, <<0, 1, 0, 0>>}

\* the pixel mask of a camera as read (mask0)
Mask0Patterns == {<<0, 0, 0, 0>>, <<0, 1, 0, 0>>, <<0, 1, 1, 0>>}

\* the fluxes of the three cameras as read (flux0, one value per camera)
Flux0Cams == {<<4, 1, 4>>, <<1, 4, 4>>}

\* dust_transmission(wave0, ebv, Rv): 1 without dust, 1/2 behind dust
MWTransmissions == {F(1), FR(1, 2)}

\* the line mask of the coadded spectrum interpolated to a camera's pixels
CoaddLinemasks == {<<FALSE, FALSE, FALSE, FALSE>>, <<FALSE, FALSE, TRUE, FALSE>>}

\* the spectra of one object as read: wave0, flux0, ivar0, mask0, res0 per
\* camera
Spectra(flux, ivar, mask, T, linemask) ==
    [zredrock |-> F(0), cameras |-> all_cameras,
     wave0 |-> np_array([c \in 1..3 |-> [p \in 1..NPixCam |-> NPixCam * (c - 1) + p]]),
     flux0 |-> np_array([c \in 1..3 |-> [p \in 1..NPixCam |-> F(flux[c])]]),
     ivar0 |-> np_array([c \in 1..3 |-> [p \in 1..NPixCam |-> F(ivar[c][p])]]),
     mask0 |-> mask,
     res0 |-> np_array([c \in 1..3 |-> <<"res", all_cameras[c]>>]),
     mw_transmission_spec |-> T,
     coadd_linemask |-> linemask]

\* mask[0] = 1; mask[-1] = 1
mask_edges(mask) ==
    np_array([p \in 1..Len(mask) |-> IF p = 1 \/ p = Len(mask) THEN 1 ELSE mask[p]])

\* ivar[mask != 0] = 0
mask_ivar(ivar, mask) ==
    np_array([p \in 1..Len(ivar) |-> IF mask[p] # 0 THEN Zero ELSE ivar[p]])

\* the inverse variances of a camera after the masking
masked_ivar(ivar0, mask0) == mask_ivar(ivar0, mask_edges(mask0))

\* every camera is kept
keep_camera_always(ivar0, mask0) == TRUE

\* a camera is kept unless np.sum(ivar0) == 0, or np.all(ivar == 0) after
\* the masking
keep_camera(ivar0, mask0) ==
    IF FSum(ivar0) = Zero
    THEN FALSE
    ELSE ~(\A p \in 1..Len(ivar0) : masked_ivar(ivar0, mask0)[p] = Zero)

\* v with x inserted, v ascending
RECURSIVE insert_float(_, _)
insert_float(v, x) ==
    IF v = <<>> THEN <<x>>
    ELSE IF FLe(x, Head(v)) THEN <<x>> \o v
    ELSE <<Head(v)>> \o insert_float(Tail(v), x)

RECURSIVE sort_floats(_)
sort_floats(v) == IF v = <<>> THEN <<>> ELSE insert_float(sort_floats(Tail(v)), Head(v))

\* the middle of the sorted array s
middle(s) ==
    IF Len(s) % 2 = 1
    THEN s[(Len(s) + 1) \div 2]
    ELSE FDiv(FAdd(s[Len(s) \div 2], s[Len(s) \div 2 + 1]), F(2))

np_median(v) == middle(sort_floats(v))

\* np.median(flux0 * np.sqrt(ivar))
camera_snr(flux0, ivar) ==
    np_median(np_array([p \in 1..Len(flux0) |-> FMul(flux0[p], np_sqrt(ivar[p]))]))

\* the cameras the loop keeps, by their place in specdata['cameras']
kept_cameras(s) ==
    SelectSeq(<<1, 2, 3>>, LAMBDA c : keep_camera(s.ivar0[c], s.mask0[c]))

\* the per-camera arrays of the cameras in keep, and the S/N, which is
\* stored at the camera's place in the cameras as read
unpacked(s, keep) ==
    [zredrock |-> s.zredrock,
     cameras |-> np_array([k \in 1..Len(keep) |-> s.cameras[keep[k]]]),
     npixpercamera |-> np_array([k \in 1..Len(keep) |-> Len(s.wave0[keep[k]])]),
     snr |-> np_array([c \in 1..3 |->
                IF \E k \in 1..Len(keep) : keep[k] = c
                THEN camera_snr(s.flux0[c], masked_ivar(s.ivar0[c], s.mask0[c]))
                ELSE Zero]),
     flux |-> np_array([k \in 1..Len(keep) |->
                [p \in 1..Len(s.flux0[keep[k]]) |->
                    FDiv(s.flux0[keep[k]][p], s.mw_transmission_spec)]]),
     ivar |-> np_array([k \in 1..Len(keep) |->
                [p \in 1..Len(s.ivar0[keep[k]]) |->
                    FMul(masked_ivar(s.ivar0[keep[k]], s.mask0[keep[k]])[p],
                         FSq(s.mw_transmission_spec))]]),
     wave |-> np_array([k \in 1..Len(keep) |-> s.wave0[keep[k]]]),
     mask |-> np_array([k \in 1..Len(keep) |-> mask_edges(s.mask0[keep[k]])]),
     res |-> np_array([k \in 1..Len(keep) |-> s.res0[keep[k]]]),
     linemask |-> np_array([k \in 1..Len(keep) |-> s.coadd_linemask]),
     flam |-> None, flam_ivar |-> None]

InitUnpack ==
    /\ ctor = [AV |-> AV_small, vdisp |-> vdisp_small]
    /\ grids = [status |-> "unused"]
    /\ cf = ContinuumFit(FALSE)
    /\ raw \in {Spectra(f, iv, mk, T, lk) :
                  f \in Flux0Cams, iv \in [1..3 -> Ivar0Patterns],
                  mk \in [1..3 -> Mask0Patterns], T \in MWTransmissions,
                  lk \in CoaddLinemasks}
    /\ data = None
    /\ cs = [new_fit("specfit") EXCEPT !.pc = "unpack"]
    /\ lm = None /\ lf = None /\ batch = None

\* the error unpack_one_spectrum raises when it has dropped every camera
no_good_data == "ValueError: No good data, which should never happen."

\* what unpack_one_spectrum leaves: the arrays of the kept cameras, or
\* ValueError('No good data, which should never happen.')
unpack_cameras(keep) ==
    IF Len(keep) = 0
    THEN /\ cs' = [cs EXCEPT !.pc = "raised", !.raised = no_good_data]
         /\ data' = data
    ELSE /\ cs' = [cs EXCEPT !.pc = "start"]
         /\ data' = unpacked(raw, keep)

unpack_one_spectrum ==
    /\ cs.pc = "unpack"
    /\ unpack_cameras(kept_cameras(raw))
    /\ UNCHANGED <<ctor, grids, cf, lm, lf, batch, raw>>

NextUnpack ==
    \/ unpack_one_spectrum
    \/ continuum_specfit_prepare

SpecUnpack == InitUnpack /\ [][NextUnpack]_vars

-----------------------------------------------------------------------------
(* build_linemodels (emlines.py): the parameter table of the line models.  *)
(* The line catalogue data/emlines.ecsv is read at run time; linetable     *)
(* lists the lines build_linemodels names, with rest wavelengths in        *)
(* Angstrom, the Balmer lines with their broad twins.                      *)

Line(name, restwave, isbalmer, isbroad) ==
    [name |-> name, restwave |-> restwave, isbalmer |-> isbalmer,
     isbroad |-> isbroad]

linetable ==
    << Line("siliii_1892", 1892, FALSE, TRUE),
       Line("ciii_1908", 1908, FALSE, TRUE),
       Line("mgii_2796", 2796, FALSE, TRUE),
       Line("mgii_2803", 2803, FALSE, TRUE),
       Line("nev_3346", 3346, FALSE, FALSE),
       Line("nev_3426", 3426, FALSE, FALSE),
       Line("oii_3726", 3726, FALSE, FALSE),
       Line("oii_3729", 3729, FALSE, FALSE),
       Line("neiii_3869", 3869, FALSE, FALSE),
       Line("hgamma", 4340, TRUE, FALSE),
       Line("hgamma_broad", 4340, TRUE, TRUE),
       Line("hbeta", 4861, TRUE, FALSE),
       Line("hbeta_broad", 4861, TRUE, TRUE),
       Line("oiii_4959", 4959, FALSE, FALSE),
       Line("oiii_5007", 5007, FALSE, FALSE),
       Line("nii_6548", 6548, FALSE, FALSE),
       Line("halpha", 6563, TRUE, FALSE),
       Line("halpha_broad", 6563, TRUE, TRUE),
       Line("nii_6584", 6584, FALSE, FALSE),
       Line("sii_6716", 6716, FALSE, FALSE),
       Line("sii_6731", 6731, FALSE, FALSE),
       Line("oii_7320", 7320, FALSE, FALSE),
       Line("oii_7330", 7330, FALSE, FALSE),
       Line("siii_9069", 9069, FALSE, FALSE),
       Line("siii_9532", 9532, FALSE, FALSE) >>

\* for param in ['amp', 'vshift', 'sigma']
params == <<"amp", "vshift", "sigma">>

\* the line and the param of the k-th entry (k from 1) of the parameter list
line_of(lt, k) == lt[((k - 1) \div 3) + 1]

param_of(k) == params[((k - 1) % 3) + 1]

nparam(lt) == 3 * Len(lt)

\* param_name = linename+'_'+param, with the doublet-ratio parameters in the
\* place of the amplitudes of three doublet members
param_name(linename, param) ==
    IF linename \o "_" \o param = "mgii_2796_amp" THEN "mgii_doublet_ratio"
    ELSE IF linename \o "_" \o param = "oii_3726_amp" THEN "oii_doublet_ratio"
    ELSE IF linename \o "_" \o param = "sii_6731_amp" THEN "sii_doublet_ratio"
    ELSE linename \o "_" \o param

param_names(lt) ==
    np_array([k \in 1..nparam(lt) |-> param_name(line_of(lt, k).name, param_of(k))])

\* np.where(param_names == name)[0]: the positions (from 0) holding the name
np_where(names, name) ==
    SelectSeq([k \in 1..Len(names) |-> k - 1], LAMBDA k : names[k + 1] = name)

\* a tie is <<factor, name of the parameter tied to>>; <<>> is no tie
width_tie(param, target) ==
    IF param \in {"sigma", "vshift"} THEN <<RI(1), target \o "_" \o param>>
    ELSE <<>>

\* the ties of a doublet whose amplitude ratio is fixed as well
ratio_tie(param, target, ratio) ==
    IF param = "amp" THEN <<RInv(ratio), target \o "_amp">>
    ELSE width_tie(param, target)

\* model 1: the if-statements of the loop body; a later one overwrites an
\* earlier one, so they are tried last to first
tied1(line, param) ==
    IF line.isbalmer /\ line.isbroad /\ line.name # "halpha_broad"
           /\ param \in {"sigma", "vshift"}
    THEN width_tie(param, "halpha_broad")
    ELSE IF line.isbalmer /\ ~line.isbroad /\ line.name # "halpha"
           /\ param \in {"sigma", "vshift"}
    THEN width_tie(param, "halpha")
    ELSE IF line.name = "siliii_1892" THEN width_tie(param, "ciii_1908")
    ELSE IF line.name = "siii_9069" THEN width_tie(param, "siii_9532")
    ELSE IF line.name = "oii_7320"
    THEN ratio_tie(param, "oii_7330", R(12251, 10000))
    ELSE IF line.name = "sii_6731" THEN width_tie(param, "sii_6716")
    ELSE IF line.name = "nii_6548"
    THEN ratio_tie(param, "nii_6584", R(29421, 10000))
    ELSE IF line.name = "oiii_4959"
    THEN ratio_tie(param, "oiii_5007", R(29839, 10000))
    ELSE IF line.name = "oii_3726" THEN width_tie(param, "oii_3729")
    ELSE IF line.name = "nev_3346" THEN width_tie(param, "nev_3426")
    ELSE IF line.name = "mgii_2796" THEN width_tie(param, "mgii_2803")
    ELSE <<>>

\* model 2 starts from the columns of model 1 and ties the widths and shifts
\* of every line that is not broad to [OIII] 5007
tied2(line, param) ==
    IF ~line.isbroad /\ line.name # "oiii_5007" /\ param \in {"sigma", "vshift"}
    THEN width_tie(param, "oiii_5007")
    ELSE tied1(line, param)

\* column[param_names == linename+'_'+param] = ...: the assignment reaches
\* the entries that carry the name, so none where a doublet ratio stands
tie_at(lt, names, k, model) ==
    IF names[k] # line_of(lt, k).name \o "_" \o param_of(k) THEN <<>>
    ELSE IF model = 1 THEN tied1(line_of(lt, k), param_of(k))
    ELSE tied2(line_of(lt, k), param_of(k))

ties(lt, names, model) ==
    np_array([k \in 1..Len(names) |-> tie_at(lt, names, k, model)])

\* the columns start as np.zeros(nparam) and np.zeros(nparam) - 1
tiedfactor(tie) == IF tie = <<>> THEN RI(0) ELSE tie[1]

tiedtoline(tie, names) == IF tie = <<>> THEN -1 ELSE np_where(names, tie[2])[1]

\* linemodel = Table(): one row per parameter
Table(lt, names, ties1, ties2) ==
    [param_names |-> names,
     index       |-> [k \in 1..Len(names) |-> k - 1],
     linename    |-> [k \in 1..Len(names) |-> line_of(lt, k).name],
     tiedfactor1 |-> [k \in 1..Len(names) |-> tiedfactor(ties1[k])],
     tiedfactor2 |-> [k \in 1..Len(names) |-> tiedfactor(ties2[k])],
     tiedtoline1 |-> [k \in 1..Len(names) |-> tiedtoline(ties1[k], names)],
     tiedtoline2 |-> [k \in 1..Len(names) |-> tiedtoline(ties2[k], names)],
     fixed1      |-> [k \in 1..Len(names) |-> FALSE],
     fixed2      |-> [k \in 1..Len(names) |-> FALSE],
     value       |-> [k \in 1..Len(names) |-> RI(0)]]

tied_table(lt, names) == Table(lt, names, ties(lt, names, 1), ties(lt, names, 2))

linemodel(lt) == tied_table(lt, param_names(lt))

\* assert(np.all(linemodel['tiedtoline1'][linemodel['tiedfactor1'] != 0] != -1))
\* and the same for model 2
ties_ok(table) ==
    \A k \in 1..Len(table.param_names) :
        /\ table.tiedfactor1[k] # RI(0) => table.tiedtoline1[k] # -1
        /\ table.tiedfactor2[k] # RI(0) => table.tiedtoline2[k] # -1

neverfix ==
    {"halpha_sigma", "halpha_vshift", "halpha_broad_sigma",
     "halpha_broad_vshift", "oiii_5007_sigma", "oiii_5007_vshift"}

\* zline = linetable['restwave'] * (1 + redshift), the value of the statement
\* that is commented out in build_linemodels
zline(line, redshift) == RMul(RI(line.restwave), RAdd(RI(1), redshift))

within(z, wavelims) == RLt(RI(wavelims[1]), z) /\ RLt(z, RI(wavelims[2]))

\* inrange = (zline > wavelims[0]) * (zline < wavelims[1])
inrange(lt, redshift, wavelims) ==
    [i \in 1..Len(lt) |-> within(zline(lt[i], redshift), wavelims)]

\* for line in linenames[outofrange]: for param in [...]:
\*     param_name = line+'_'+param
\*     if param_name not in neverfix: fixed[param_names == param_name] = True
fixed(lt, names, inr) ==
    [k \in 1..Len(names) |->
        \E i \in 1..Len(lt), p \in 1..3 :
            /\ ~inr[i]
            /\ lt[i].name \o "_" \o params[p] \notin neverfix
            /\ names[k] = lt[i].name \o "_" \o params[p]]

\* the free parameters: neither tied nor fixed (positions from 0)
Ifree(tiedto, fix) ==
    {k - 1 : k \in {j \in 1..Len(fix) : tiedto[j] = -1 /\ ~fix[j]}}

\* the names build_linemodels reads without binding them; they resolve in the
\* module namespace, which as the module stands binds none of them
free_names == {"zline", "tied", "tiedtoline"}

Bindings == {{}, {"zline"}, free_names}

LineRedshifts == {RI(0), R(1, 10), RI(1)}

WaveLims ==
    {w \in {3000, 3728, 5000} \X {3727, 6570, 9900} : w[1] < w[2]}

InitLines ==
    /\ lm \in [pc : {"start"}, exc : {""}, redshift : LineRedshifts,
               wavelims : WaveLims, verbose : BOOLEAN, globals : {{}},
               linemodel : {<<>>}, fixed : {<<>>}]
    /\ ctor = None /\ grids = None /\ cf = None /\ data = None /\ cs = None
    /\ lf = None /\ batch = None /\ raw = None

\* the asserts on the ties, and then pdb.set_trace()
stop_at_pdb(l, table) ==
    IF ties_ok(table)
    THEN [l EXCEPT !.pc = "pdb", !.linemodel = table]
    ELSE [l EXCEPT !.pc = "raised", !.exc = "AssertionError"]

\* build_linemodels up to pdb.set_trace(): the table with both tie models;
\* the call then waits at the debugger prompt
build_linemodels ==
    /\ lm.pc = "start"
    /\ lm' = stop_at_pdb(lm, linemodel(linetable))
    /\ UNCHANGED <<ctor, grids, cf, data, cs, lf, batch, raw>>

\* the console user continues the call; statements typed at the prompt may
\* have bound names in the module namespace
pdb_continue ==
    /\ lm.pc = "pdb"
    /\ \E b \in Bindings : lm' = [lm EXCEPT !.pc = "resumed", !.globals = b]
    /\ UNCHANGED <<ctor, grids, cf, data, cs, lf, batch, raw>>

\* the rest of build_linemodels once fixed is computed: the verbose report
\* reads the column linemodel['tiedtoline'], which the table does not have;
\* the return statement reads tied and tiedtoline
report_and_return(l, fix) ==
    IF l.verbose
    THEN [l EXCEPT !.pc = "raised", !.exc = "KeyError: 'tiedtoline'", !.fixed = fix]
    ELSE IF ~({"tied", "tiedtoline"} \subseteq l.globals)
    THEN [l EXCEPT !.pc = "raised", !.exc = "NameError: tied", !.fixed = fix]
    ELSE [l EXCEPT !.pc = "returned", !.fixed = fix]

\* build_linemodels after the debugger: the out-of-range lines are fixed
build_linemodels_resume ==
    /\ lm.pc = "resumed"
    /\ lm' = IF "zline" \notin lm.globals
             THEN [lm EXCEPT !.pc = "raised", !.exc = "NameError: zline"]
             ELSE report_and_return(lm,
                      fixed(linetable, lm.linemodel.param_names,
                            inrange(linetable, lm.redshift, lm.wavelims)))
    /\ UNCHANGED <<ctor, grids, cf, data, cs, lf, batch, raw>>

NextLines ==
    \/ build_linemodels
    \/ pdb_continue
    \/ build_linemodels_resume

SpecLines == InitLines /\ [][NextLines]_vars

-----------------------------------------------------------------------------
(* EMLineFit.fit (emlines.py): the two-stage line fit of one object.       *)
(* Parameter values and fluxes are floats; wavelengths in Angstrom are     *)
(* integers, and the line windows are computed in units of 0.01 Angstrom.  *)
(* The class EMLineModel and the fitter FastLevMarLSQFitter are used by    *)
(* fit but defined nowhere in the package: the model follows the           *)
(* parameter table of build_linemodels and the way fit uses them.          *)

\* speed of light in km/s (fastspecfit.util.C_LIGHT), to the km/s
C_LIGHT == 299792

\* EMLineModel: the seeds of the widths and the widths of a dropped line
initsigma_narrow == 75

initsigma_broad == 1200

limitsigma_narrow == 75

limitsigma_broad == 1200

\* self.linetable and the parameter names of the model
pnames == param_names(linetable)

\* the place of a named parameter
pindex(name) == CHOOSE k \in 1..Len(pnames) : pnames[k] = name

\* hasattr(model, name)
hasattr(name) == \E k \in 1..Len(pnames) : pnames[k] = name

\* the line of the catalogue with a name
line_named(name) == linetable[CHOOSE i \in 1..Len(linetable) : linetable[i].name = name]

\* IB = linetable['isbroad'] * linetable['isbalmer']
IB == SelectSeq(linetable, LAMBDA line : line.isbroad /\ line.isbalmer)

\* the default of a parameter: Parameter.default
param_default(k) ==
    IF pnames[k] \in {"mgii_doublet_ratio", "oii_doublet_ratio", "sii_doublet_ratio"}
    THEN F(1)
    ELSE IF param_of(k) = "amp" THEN F(1)
    ELSE IF param_of(k) = "vshift" THEN F(0)
    ELSE IF line_of(linetable, k).isbroad THEN F(initsigma_broad)
    ELSE F(initsigma_narrow)

\* the tie of a parameter: <<factor, name>>, or <<>>
param_tied(k) == tie_at(linetable, pnames, k, 1)

\* the pixels of the cameras: data['wave']
fit_wave == << <<4855, 4856, 4857, 4858, 4859, 4860, 4861, 4862, 4863, 4864>>,
               <<6550, 6551, 6552, 6553, 6554, 6555, 6556, 6557, 6558, 6559,
                 6560, 6561, 6562, 6563, 6564, 6565, 6566, 6567, 6568, 6569>> >>

\* wavelims = (np.min(emlinewave)+5, np.max(emlinewave)-5)
fit_wavelims(emlinewave) ==
    <<emlinewave[1] + 5, emlinewave[Len(emlinewave)] - 5>>

\* EMLineModel(redshift, wavelims, ...): the parameters at their defaults,
\* those of a line out of range at 0 and fixed unless named in neverfix
EMLineModel(redshift, wavelims) ==
    [inrange |-> inrange(linetable, redshift, wavelims),
     value |-> np_array([k \in 1..Len(pnames) |->
                  IF fixed(linetable, pnames, inrange(linetable, redshift, wavelims))[k]
                  THEN F(0) ELSE param_default(k)]),
     fixed |-> fixed(linetable, pnames, inrange(linetable, redshift, wavelims)),
     upper |-> np_array([k \in 1..Len(pnames) |-> <<>>])]

\* getattr(model, name).value
getvalue(model, name) == model.value[pindex(name)]

\* count_free_parameters: neither fixed nor tied
is_free(model, k) == ~model.fixed[k] /\ param_tied(k) = <<>>

count_free_parameters(model) ==
    Cardinality({k \in 1..Len(pnames) : is_free(model, k)})

\* the flux on the pixels: a flat continuum, and the object with lines at
\* H-beta and H-alpha on it
flat_flux(w) == F(1)

line_flux(w) ==
    IF w \in {4861, 6563} THEN F(5)
    ELSE IF w \in {6716, 6731, 7320, 7330} THEN F(4)
    ELSE IF w \in {4860, 4862, 6562, 6564} THEN F(3)
    ELSE IF w \in {6551, 6552, 6715, 6717, 6730, 6732} THEN F(2)
    ELSE F(1)

\* data['flux'] and data['ivar'] on the pixels of the cameras
on_pixels(wave, object) ==
    np_array([c \in 1..Len(wave) |->
        [p \in 1..Len(wave[c]) |->
            IF object THEN line_flux(wave[c][p]) ELSE flat_flux(wave[c][p])]])

ivar_on_pixels(wave, zeroed) ==
    np_array([c \in 1..Len(wave) |->
        [p \in 1..Len(wave[c]) |->
            IF wave[c][p] \in zeroed THEN Zero ELSE F(1)]])

\* the pixels whose inverse variance is 0
ZeroedPixels == {{}, {4861}, {4859, 4860, 4861}, {4855, 4856, 4857, 4858}}

\* data['linename'][icam] and data['linepix'][icam]: the lines of the line
\* mask on each camera, with their pixels (counted from 1 in the camera)
LinePixels ==
    { << <<>>, <<>> >>,
      << << <<"hbeta", <<5, 6, 7, 8, 9>> >> >>,
         << <<"halpha_broad", <<10, 11, 12, 13, 14, 15, 16, 17, 18, 19>> >> >> >>,
      << << <<"hbeta", <<5, 6, 7, 8, 9>> >>, <<"hbeta_broad", <<5, 6, 7, 8, 9>> >> >>,
         << <<"halpha_broad", <<11, 12, 13, 14, 15, 16, 17>> >> >> >> }

\* data['coadd_linename'] and data['coadd_linepix'] (pixels counted from 1)
coadd_lines ==
    << <<"hbeta", <<5, 6, 7, 8, 9>> >>,
       <<"hbeta_broad", <<1, 2, 3, 4, 5, 6, 7, 8, 9, 10>> >>,
       <<"halpha", <<21, 22, 23, 24, 25, 26, 27>> >>,
       <<"halpha_broad", <<18, 19, 20, 21, 22, 23, 24, 25, 26, 27, 28, 29, 30>> >> >>

\* data['linesigma_narrow'], its S/N, and the same for the Balmer and UV lines
LineSigmas ==
    { [narrow |-> F(200), narrow_snr |-> F(0), balmer |-> F(1000),
       balmer_snr |-> F(0), uv |-> F(2000), uv_snr |-> F(0)],
      [narrow |-> F(100), narrow_snr |-> F(5), balmer |-> F(1000),
       balmer_snr |-> F(5), uv |-> F(2000), uv_snr |-> F(0)] }

\* the data of one object and the models of its continuum
SpecData(cameras, wave, zeroed, linepix, coadd, sigmas) ==
    [zredrock |-> RI(0), cameras |-> cameras,
     wave |-> wave,
     flux |-> on_pixels(wave, TRUE),
     ivar |-> ivar_on_pixels(wave, zeroed),
     continuummodel |-> on_pixels(wave, FALSE),
     npixpercamera |-> np_array([c \in 1..Len(wave) |-> Len(wave[c])]),
     linename |-> np_array([c \in 1..2 |->
                    [i \in 1..Len(linepix[c]) |-> linepix[c][i][1]]]),
     linepix |-> np_array([c \in 1..2 |->
                    [i \in 1..Len(linepix[c]) |-> linepix[c][i][2]]]),
     coadd_wave |-> hstack(wave),
     coadd_linename |-> np_array([i \in 1..Len(coadd) |-> coadd[i][1]]),
     coadd_linepix |-> np_array([i \in 1..Len(coadd) |-> coadd[i][2]]),
     linesigma |-> sigmas]

FitData(zeroed, linepix, sigmas) ==
    SpecData(<<"b", "r">>, fit_wave, zeroed, linepix, coadd_lines, sigmas)

\* a - b and a + b, element by element
np_subtract(a, b) == np_array([p \in 1..Len(a) |-> FSub(a[p], b[p])])

RECURSIVE np_max(_)
np_max(v) ==
    IF Len(v) = 1 THEN v[1]
    ELSE IF FLt(np_max(Tail(v)), Head(v)) THEN Head(v) ELSE np_max(Tail(v))

np_abs(v) == np_array([p \in 1..Len(v) |-> IF v[p][1] < 0 THEN FNeg(v[p]) ELSE v[p]])

\* v[indx]
take(v, indx) == np_array([i \in 1..Len(indx) |-> v[indx[i]]])

\* the value between s[i] and s[i+1] at the fraction n/d of the way
between(lo, hi, n, d) == FAdd(lo, FMul(FSub(hi, lo), FR(n, d)))

\* np.percentile(v, q) for q = num/den percent, on the sorted array s: linear
\* interpolation at the position (len - 1) * q / 100
percentile_sorted(s, num, den) ==
    IF ((Len(s) - 1) * num) % (100 * den) = 0
    THEN s[((Len(s) - 1) * num) \div (100 * den) + 1]
    ELSE between(s[((Len(s) - 1) * num) \div (100 * den) + 1],
                 s[((Len(s) - 1) * num) \div (100 * den) + 2],
                 ((Len(s) - 1) * num) % (100 * den), 100 * den)

np_percentile(v, num, den) == percentile_sorted(sort_floats(v), num, den)

\* np.interp(x, xp, fp) at one x, for xp increasing
np_interp_at(x, xp, fp) ==
    IF x <= xp[1] THEN fp[1]
    ELSE IF x >= xp[Len(xp)] THEN fp[Len(xp)]
    ELSE between(fp[CHOOSE i \in 1..Len(xp) - 1 : xp[i] <= x /\ x < xp[i + 1]],
                 fp[(CHOOSE i \in 1..Len(xp) - 1 : xp[i] <= x /\ x < xp[i + 1]) + 1],
                 x - xp[CHOOSE i \in 1..Len(xp) - 1 : xp[i] <= x /\ x < xp[i + 1]],
                 xp[(CHOOSE i \in 1..Len(xp) - 1 : xp[i] <= x /\ x < xp[i + 1]) + 1]
                    - xp[CHOOSE i \in 1..Len(xp) - 1 : xp[i] <= x /\ x < xp[i + 1]])

\* ivar2var(ivar, clip=1e-3): the pixels with ivar above the clip are good
emlinegood(ivar) == SelectSeq([p \in 1..Len(ivar) |-> p], LAMBDA p : FLt(FR(1, 1000), ivar[p]))

\* emlineivar[emlinebad] = np.interp(emlinewave[emlinebad],
\*     emlinewave[emlinegood], emlineivar[emlinegood]), and the same for the
\* flux; both arrays, good and bad pixels, come out of the interpolation
interp_bad(wave, v, good) ==
    np_array([p \in 1..Len(v) |->
        IF \E g \in 1..Len(good) : good[g] = p THEN v[p]
        ELSE np_interp_at(wave[p], take(wave, good), take(v, good))])

\* what the optimizer did in the two stages of a fit: nothing yet
no_solution == [narrow |-> <<>>, broad |-> <<>>]

\* the record of a fit that has not started; <<>> stands for a name that is
\* not bound yet.  chosen is what the optimizer did in this call, replay
\* what it did in the call before on the same arrays: the optimizer is a
\* function of its arguments
new_linefit(d, broadlinefit) ==
    [pc |-> "start", exc |-> "", broadlinefit |-> broadlinefit, data |-> d,
     emlinewave |-> <<>>, oemlineivar |-> <<>>, emlineivar |-> <<>>,
     emlineflux |-> <<>>, specflux |-> <<>>, wavelims |-> <<>>,
     EMLineModel |-> <<>>, init_amplitudes |-> <<>>, init_sigmas |-> <<>>,
     nfree |-> 0, fitted |-> <<>>, initfit |-> <<>>, broadfit |-> <<>>,
     finalfit |-> <<>>,
     emlinemodel |-> <<>>, specflux_nolines |-> <<>>, broadlinepix |-> <<>>, used_broad |-> FALSE,
     linechi2_init |-> Zero, linechi2_broad |-> Zero, result |-> <<>>,
     chosen |-> no_solution, replay |-> no_solution]

InitFit ==
    /\ ctor = None /\ grids = None /\ cf = None /\ data = None /\ cs = None
    /\ lm = [pc |-> "unused"] /\ batch = None /\ raw = None
    /\ lf \in {new_linefit(FitData(zeroed, linepix, sigmas), b) :
                 zeroed \in ZeroedPixels, linepix \in LinePixels,
                 sigmas \in LineSigmas, b \in BOOLEAN}

\* the arrays of the fit, with the inverse variance and the flux of the bad
\* pixels interpolated over the good ones
fit_arrays_in_place(l, wave, oivar, flux, good) ==
    [l EXCEPT !.pc = "pdb774",
              !.emlinewave = wave,
              !.oemlineivar = oivar,
              !.specflux = hstack(l.data.flux),
              !.emlineivar = IF Len(good) < Len(oivar) THEN interp_bad(wave, oivar, good)
                             ELSE oivar,
              !.emlineflux = IF Len(good) < Len(flux) THEN interp_bad(wave, flux, good)
                             ELSE flux,
              !.wavelims = fit_wavelims(wave),
              !.data.ivar = np_array([c \in 1..Len(l.data.ivar) |->
                  [q \in 1..Len(l.data.ivar[c]) |->
                      (IF Len(good) < Len(oivar) THEN interp_bad(wave, oivar, good)
                       ELSE oivar)[Len(hstack(SubSeq(l.data.ivar, 1, c - 1))) + q]]])]

fit_arrays(l, wave, oivar, flux, good) ==
    [l EXCEPT !.pc = "pdb774",
              !.emlinewave = wave,
              !.oemlineivar = oivar,
              !.specflux = hstack(l.data.flux),
              !.emlineivar = IF Len(good) < Len(oivar) THEN interp_bad(wave, oivar, good)
                             ELSE oivar,
              !.emlineflux = IF Len(good) < Len(flux) THEN interp_bad(wave, flux, good)
                             ELSE flux,
              !.wavelims = fit_wavelims(wave)]

\* fit, up to the first stop in the debugger: the stacked arrays of the
\* cameras, emlineflux = specflux - continuummodelflux - smoothcontinuummodelflux
\* (the smooth continuum being 0 here)
fit_setup ==
    /\ lf.pc = "start"
    /\ lf' = fit_arrays(lf, hstack(lf.data.wave), hstack(lf.data.ivar),
                        np_subtract(hstack(lf.data.flux), hstack(lf.data.continuummodel)),
                        emlinegood(hstack(lf.data.ivar)))
    /\ UNCHANGED <<ctor, grids, cf, data, cs, lm, batch, raw>>

\* the debugger goes on: linemodel = build_linemodels(self.linetable,
\* redshift, wavelims, verbose=True) is called
fit_build_linemodels ==
    /\ lf.pc = "pdb774"
    /\ lf' = [lf EXCEPT !.pc = "build_linemodels"]
    /\ lm' = [pc |-> "start", exc |-> "", redshift |-> lf.data.zredrock,
              wavelims |-> lf.wavelims, verbose |-> TRUE, globals |-> {},
              linemodel |-> <<>>, fixed |-> <<>>]
    /\ UNCHANGED <<ctor, grids, cf, data, cs, batch, raw>>

\* the error build_linemodels raises leaves fit
fit_linemodels_raised ==
    /\ lf.pc = "build_linemodels"
    /\ lm.pc = "raised"
    /\ lf' = [lf EXCEPT !.pc = "raised", !.exc = lm.exc]
    /\ UNCHANGED <<ctor, grids, cf, data, cs, lm, batch, raw>>

\* at the stop the console jumps over the block under "if True:" to the
\* construction of the line model
pdb_jump_model ==
    /\ lf.pc = "pdb774"
    /\ lf' = [lf EXCEPT !.pc = "model"]
    /\ UNCHANGED <<ctor, grids, cf, data, cs, lm, batch, raw>>

\* _init_guesses: the seed of the amplitude of a line of the coadded
\* spectrum with pixels linepix
\*   if npix > 5: amp = np.max(flux[linepix[npix//2]-3 : linepix[npix//2]+3]),
\*       the slice clipped at 0 and at linepix[-1]
\*   else: amp = np.percentile(flux[linepix], 97.5)
slice_max(flux, mid, last) ==
    np_max(SubSeq(flux, (IF mid - 3 < 1 THEN 1 ELSE mid - 3),
                        (IF mid + 3 > last THEN last ELSE mid + 3) - 1))

init_amplitude(flux, linepix) ==
    IF Len(linepix) > 5
    THEN slice_max(flux, linepix[Len(linepix) \div 2 + 1], linepix[Len(linepix)])
    ELSE np_percentile(take(flux, linepix), 975, 10)

\* mx = 5*np.max(flux[linepix]); if mx < 0: mx = 5*np.max(np.abs(flux[linepix]))
amp_upper(v) ==
    IF FLt(FMul(F(5), np_max(v)), Zero) THEN FMul(F(5), np_max(np_abs(v)))
    ELSE FMul(F(5), np_max(v))

\* the lines of the coadded spectrum that have an amplitude parameter
seeded_lines(d) ==
    {i \in 1..Len(d.coadd_linename) : hasattr(d.coadd_linename[i] \o "_amp")}

\* the place in coadd_linename of the line whose amplitude is parameter k,
\* or 0
coadd_place(d, k) ==
    IF \E i \in seeded_lines(d) : pnames[k] = d.coadd_linename[i] \o "_amp"
    THEN CHOOSE i \in seeded_lines(d) : pnames[k] = d.coadd_linename[i] \o "_amp"
    ELSE 0

\* init_amplitudes: the seeds by line name
init_amplitudes(d, flux) ==
    [name \in {d.coadd_linename[i] : i \in seeded_lines(d)} |->
        init_amplitude(flux,
            d.coadd_linepix[CHOOSE i \in seeded_lines(d) : d.coadd_linename[i] = name])]

\* the seed of the width of a line: data['linesigma_*'] of its class where
\* the S/N of that width is positive, <<>> where not
sigma_seed(line, s) ==
    IF line.isbroad /\ line.isbalmer
    THEN (IF FLt(Zero, s.balmer_snr) THEN <<s.balmer>> ELSE <<>>)
    ELSE IF line.isbroad
    THEN (IF FLt(Zero, s.uv_snr) THEN <<s.uv>> ELSE <<>>)
    ELSE (IF FLt(Zero, s.narrow_snr) THEN <<s.narrow>> ELSE <<>>)

\* init_sigmas: for every line whose sigma is not 0, the entries
\* '<line>_fixed' and '<line>_vshift', and '<line>' where the width is seeded
init_sigmas(model, s) ==
    [name \in {linetable[i].name : i \in
                 {j \in 1..Len(linetable) :
                     getvalue(model, linetable[j].name \o "_sigma") # Zero}} |->
        [fixed |-> model.fixed[pindex(name \o "_sigma")],
         vshift |-> getvalue(model, name \o "_vshift"),
         sigma |-> sigma_seed(line_named(name), s)]]

\* the line model with the amplitudes, their upper bounds and the widths
\* seeded
seeded(model, d, flux) ==
    [model EXCEPT
        !.value = np_array([k \in 1..Len(pnames) |->
            IF coadd_place(d, k) # 0
            THEN init_amplitude(flux, d.coadd_linepix[coadd_place(d, k)])
            ELSE IF param_of(k) = "sigma" /\ model.value[k] # Zero
                    /\ sigma_seed(line_of(linetable, k), d.linesigma) # <<>>
            THEN sigma_seed(line_of(linetable, k), d.linesigma)[1]
            ELSE model.value[k]]),
        !.upper = np_array([k \in 1..Len(pnames) |->
            IF coadd_place(d, k) # 0
            THEN <<amp_upper(take(flux, d.coadd_linepix[coadd_place(d, k)]))>>
            ELSE model.upper[k]])]

\* what _init_guesses leaves: the seeded model and the two dictionaries
with_guesses(l, model) ==
    [l EXCEPT !.pc = "pdb795",
              !.EMLineModel = seeded(model, l.data, l.emlineflux),
              !.init_amplitudes = init_amplitudes(l.data, l.emlineflux),
              !.init_sigmas = init_sigmas(model, l.data.linesigma)]

\* self.EMLineModel = EMLineModel(...); init_amplitudes, init_sigmas =
\* self._init_guesses(data, emlinewave, emlineflux); pdb.set_trace()
fit_init_guesses ==
    /\ lf.pc = "model"
    /\ lf' = with_guesses(lf, EMLineModel(lf.data.zredrock, lf.wavelims))
    /\ UNCHANGED <<ctor, grids, cf, data, cs, lm, batch, raw>>

\* the amplitudes of the broad Balmer lines alone at 0 and fixed
suppress_broad_amplitudes(model) ==
    [model EXCEPT
        !.value = np_array([k \in 1..Len(pnames) |->
            IF line_of(linetable, k).isbroad /\ line_of(linetable, k).isbalmer
                  /\ param_of(k) = "amp"
            THEN Zero ELSE model.value[k]]),
        !.fixed = np_array([k \in 1..Len(pnames) |->
            IF line_of(linetable, k).isbroad /\ line_of(linetable, k).isbalmer
                  /\ param_of(k) = "amp"
            THEN TRUE ELSE model.fixed[k]])]

\* the narrow stage: the broad Balmer lines at 0 and fixed, whether in range
\* or not
suppress_broad(model) ==
    [model EXCEPT
        !.value = np_array([k \in 1..Len(pnames) |->
            IF line_of(linetable, k).isbroad /\ line_of(linetable, k).isbalmer
            THEN Zero ELSE model.value[k]]),
        !.fixed = np_array([k \in 1..Len(pnames) |->
            IF line_of(linetable, k).isbroad /\ line_of(linetable, k).isbalmer
            THEN TRUE ELSE model.fixed[k]])]

narrow_stage(l, model) ==
    [l EXCEPT !.pc = "least_squares", !.EMLineModel = model,
              !.nfree = count_free_parameters(model)]

\* the debugger goes on to the refactored fit: IB, the loop that fixes the
\* broad Balmer lines, nfree = count_free_parameters()
fit_narrow_setup ==
    /\ lf.pc = "pdb795"
    /\ lf' = narrow_stage(lf, suppress_broad(lf.EMLineModel))
    /\ UNCHANGED <<ctor, grids, cf, data, cs, lm, batch, raw>>

\* Ifree, Itied, bounds = self._lines_to_fit(): the method is commented out
fit_least_squares ==
    /\ lf.pc = "least_squares"
    /\ lf' = [lf EXCEPT !.pc = "raised", !.exc = "AttributeError"]
    /\ UNCHANGED <<ctor, grids, cf, data, cs, lm, batch, raw>>

\* the console jumps over the refactored fit to fitter = FastLevMarLSQFitter
pdb_jump_fitter ==
    /\ lf.pc = "least_squares"
    /\ lf' = [lf EXCEPT !.pc = "fitter"]
    /\ UNCHANGED <<ctor, grids, cf, data, cs, lm, batch, raw>>

\* what the optimizer may do to the free parameters of the lines that are
\* not broad Balmer lines, and to those of the broad Balmer lines
NarrowOutcomes ==
    {"moved", "stuck", "negative", "at_bound", "sigma_at_seed", "sigma_default"}

BroadOutcomes == {"moved", "stuck", "narrower"}

\* what the optimizer does to the other lines in the broad stage
RefitOutcomes == {"moved", "stuck"}

\* model(emlinewave) of a fit: no line at all, or the data themselves
ModelSpectra == {"zero", "data"}

\* a value the optimizer moves a parameter to, away from seed, default and
\* bounds
moved_to(k) ==
    IF param_of(k) = "vshift" THEN F(30)
    ELSE IF param_of(k) = "sigma"
    THEN (IF line_of(linetable, k).isbroad THEN F(900) ELSE F(150))
    ELSE IF pnames[k] \in {"mgii_doublet_ratio", "oii_doublet_ratio", "sii_doublet_ratio"}
    THEN FR(3, 4)
    ELSE F(2)

\* the solution of the optimizer for the free parameter k
solution(model, k, outcome) ==
    IF outcome = "stuck" THEN model.value[k]
    ELSE IF outcome = "negative" /\ param_of(k) = "amp" THEN FNeg(F(1))
    ELSE IF outcome = "at_bound" /\ param_of(k) = "amp" /\ model.upper[k] # <<>>
    THEN model.upper[k][1]
    ELSE IF outcome = "sigma_at_seed" /\ param_of(k) = "sigma" THEN model.value[k]
    ELSE IF outcome = "sigma_default" /\ param_of(k) = "sigma" THEN param_default(k)
    ELSE IF outcome = "narrower" /\ param_of(k) = "sigma" THEN F(150)
    ELSE moved_to(k)

\* the outcome that applies to parameter k
outcome_of(k, narrow, broad) ==
    IF line_of(linetable, k).isbroad /\ line_of(linetable, k).isbalmer
    THEN broad ELSE narrow

\* the free parameters at the solution
solved(model, narrow, broad) ==
    np_array([k \in 1..Len(pnames) |->
        IF is_free(model, k) THEN solution(model, k, outcome_of(k, narrow, broad))
        ELSE model.value[k]])

\* the tied parameters computed from the parameters they are tied to; a
\* fixed parameter keeps its value
with_ties(model, values) ==
    np_array([k \in 1..Len(pnames) |->
        IF param_tied(k) # <<>> /\ ~model.fixed[k]
        THEN FMul(float(param_tied(k)[1]), values[pindex(param_tied(k)[2])])
        ELSE values[k]])

\* the spectrum of a fitted model on the pixels
spectrum(kind, flux) ==
    IF kind = "data" THEN flux ELSE np_array([p \in 1..Len(flux) |-> Zero])

\* fitter(self.EMLineModel, emlinewave, emlineflux, weights=weights, ...):
\* a copy of the model at the solution, and its spectrum
fitter(model, narrow, broad, kind, flux) ==
    [value |-> with_ties(model, solved(model, narrow, broad)),
     fixed |-> model.fixed, upper |-> model.upper, inrange |-> model.inrange,
     spectrum |-> spectrum(kind, flux)]

\* EMLineFit._clean_linefit, first loop: the line is dropped
\*   if amp.value == amp.default or (amp.bounds[1] is not None and
\*      amp.value >= amp.bounds[1]) or amp.value <= 0 or (linename in initkeys
\*      and init_amplitudes[linename] == amp.value) or
\*      sigma.value == sigma.default
\* unless it has no amplitude or its amplitude is fixed
not_optimized(fit, linename, amps) ==
    \/ getvalue(fit, linename \o "_amp") = param_default(pindex(linename \o "_amp"))
    \/ /\ fit.upper[pindex(linename \o "_amp")] # <<>>
       /\ FLe(fit.upper[pindex(linename \o "_amp")][1], getvalue(fit, linename \o "_amp"))
    \/ FLe(getvalue(fit, linename \o "_amp"), Zero)
    \/ /\ linename \in DOMAIN amps
       /\ amps[linename] = getvalue(fit, linename \o "_amp")
    \/ getvalue(fit, linename \o "_sigma") = param_default(pindex(linename \o "_sigma"))

dropped_line(fit, linename, amps) ==
    /\ hasattr(linename \o "_amp")
    /\ ~fit.fixed[pindex(linename \o "_amp")]
    /\ not_optimized(fit, linename, amps)

\* the model with amp, sigma and vshift of the lines of a set at 0.0
drop_lines(fit, names) ==
    [fit EXCEPT !.value = np_array([k \in 1..Len(pnames) |->
        IF line_of(linetable, k).name \in names
              /\ pnames[k] = line_of(linetable, k).name \o "_" \o param_of(k)
        THEN Zero ELSE fit.value[k]])]

\* EMLineFit._clean_linefit, second loop: a broad Balmer line whose amplitude is not
\* fixed is dropped if sigma_broad <= sigma of its narrow counterpart, whose
\* name is that of the line less "_broad"
narrow_of(line) ==
    linetable[CHOOSE i \in 1..Len(linetable) :
        linetable[i].name \o "_broad" = line.name]

narrower_broad(fit, line) ==
    /\ ~fit.fixed[pindex(line.name \o "_amp")]
    /\ FLe(getvalue(fit, line.name \o "_sigma"),
           getvalue(fit, narrow_of(line).name \o "_sigma"))

drop_narrower_broad(fit) ==
    drop_lines(fit, {IB[i].name : i \in {j \in 1..Len(IB) : narrower_broad(fit, IB[j])}})

clean_linefit(fit, amps) ==
    drop_narrower_broad(
        drop_lines(fit, {linetable[i].name : i \in
            {j \in 1..Len(linetable) : dropped_line(fit, linetable[j].name, amps)}}))

\* sum(ivar * (flux - model)**2)
chi2_sum(ivar, flux, model) ==
    FSum(np_array([p \in 1..Len(flux) |->
        FMul(ivar[p], FSq(FSub(flux[p], model[p])))]))

\* the chi2_default of the constructor
chi2_default == Zero

chi2_unless_zero(nfree, ivar, flux, model) ==
    IF count_positive(ivar) - nfree # 0
    THEN FDiv(chi2_sum(ivar, flux, model), F(count_positive(ivar) - nfree))
    ELSE chi2_default

\* chi2: dof = np.sum(emlineivar > 0) - nfree
\*   if dof > 0: chi2 = sum / dof   else: chi2 = self.chi2_default
chi2(nfree, ivar, flux, model) ==
    IF count_positive(ivar) - nfree > 0
    THEN FDiv(chi2_sum(ivar, flux, model), F(count_positive(ivar) - nfree))
    ELSE chi2_default

\* the narrow fit as the optimizer returned it, and cleaned
narrow_fit(l, fit) ==
    [l EXCEPT !.pc = "pdb908", !.fitted = fit,
              !.initfit = clean_linefit(fit, l.init_amplitudes)]

\* the optimizer does in a stage what it did in the call before, if any
replays(l, stage, did) ==
    l.replay[stage] = <<>> \/ l.replay[stage] = did

chose(l, stage, did) == [l EXCEPT !.chosen[stage] = did]

\* the console goes on: initfit = fitter(...); initfit =
\* self._clean_linefit(initfit, init_amplitudes, init_sigmas); initchi2;
\* pdb.set_trace()
fit_initfit ==
    /\ lf.pc = "fitter"
    /\ \E narrow \in NarrowOutcomes, kind \in ModelSpectra :
          /\ replays(lf, "narrow", <<narrow, kind>>)
          /\ lf' = narrow_fit(chose(lf, "narrow", <<narrow, kind>>),
                              fitter(lf.EMLineModel, narrow, "stuck", kind,
                                     lf.emlineflux))
    /\ UNCHANGED <<ctor, grids, cf, data, cs, lm, batch, raw>>

\* the lines whose windows count for the broad stage
broad_window_lines == {"halpha_broad", "hbeta_broad", "hgamma_broad"}

\* pixoffset = int(np.sum(data['npixpercamera'][:icam]))
RECURSIVE pixoffset(_, _)
pixoffset(npixpercamera, icam) ==
    IF icam = 1 THEN 0
    ELSE npixpercamera[icam - 1] + pixoffset(npixpercamera, icam - 1)

\* broadlinepix: the list of linepix + pixoffset of the broad windows of the
\* cameras, an empty array standing for each of the other lines
RECURSIVE windows_of(_, _, _)
windows_of(names, pix, offset) ==
    IF names = <<>> THEN <<>>
    ELSE (IF Head(names) \in broad_window_lines
          THEN << [i \in 1..Len(Head(pix)) |-> Head(pix)[i] + offset] >>
          ELSE <<>>)
         \o windows_of(Tail(names), Tail(pix), offset)

broadlinepix(d) ==
    hstack([c \in 1..Len(d.cameras) |->
        windows_of(d.linename[c], d.linepix[c], pixoffset(d.npixpercamera, c))])

enter_broad_stage_at_10(broadlinefit, windows) ==
    broadlinefit \/ (Len(windows) > 0 /\ Len(hstack(windows)) >= 10)

\* if broadlinefit == True or (len(broadlinepix) > 0 and
\*     len(np.hstack(broadlinepix)) > 10)
enter_broad_stage(broadlinefit, windows) ==
    broadlinefit \/ (Len(windows) > 0 /\ Len(hstack(windows)) > 10)

\* the broad Balmer lines restored in self.EMLineModel: the amplitude to its
\* seed and free where the line has one, the width to its seed and the
\* shift and the flags to what they were where the width was seeded
restore_value(model, k, name, amps, sigmas) ==
    IF param_of(k) = "amp"
    THEN (IF name \in DOMAIN amps THEN amps[name] ELSE model.value[k])
    ELSE IF name \in DOMAIN sigmas /\ sigmas[name].sigma # <<>>
    THEN (IF param_of(k) = "sigma" THEN sigmas[name].sigma[1] ELSE sigmas[name].vshift)
    ELSE model.value[k]

restore_fixed(model, k, name, amps, sigmas) ==
    IF param_of(k) = "amp"
    THEN (IF name \in DOMAIN amps THEN FALSE ELSE model.fixed[k])
    ELSE IF name \in DOMAIN sigmas /\ sigmas[name].sigma # <<>>
    THEN sigmas[name].fixed
    ELSE model.fixed[k]

restore_broad(model, amps, sigmas) ==
    [model EXCEPT
        !.value = np_array([k \in 1..Len(pnames) |->
            IF line_of(linetable, k).isbroad /\ line_of(linetable, k).isbalmer
            THEN restore_value(model, k, line_of(linetable, k).name, amps, sigmas)
            ELSE model.value[k]]),
        !.fixed = np_array([k \in 1..Len(pnames) |->
            IF line_of(linetable, k).isbroad /\ line_of(linetable, k).isbalmer
            THEN restore_fixed(model, k, line_of(linetable, k).name, amps, sigmas)
            ELSE model.fixed[k]])]

\* np.sum(emlineivar[pix] * (emlineflux[pix] - model[pix])**2) / len(pix)
linechi2(ivar, flux, model, pix) ==
    FDiv(chi2_sum(take(ivar, pix), take(flux, pix), take(model, pix)), F(Len(pix)))

\* alldropped = np.all([getattr(broadfit, name+'_amp').value == 0.0
\*                      for name in linetable['name'][IB]])
alldropped(fit) == \A i \in 1..Len(IB) : getvalue(fit, IB[i].name \o "_amp") = Zero

\* if alldropped or linechi2_broad > linechi2_init: bestfit = initfit
\* else: bestfit = broadfit
use_broad(fit, chi2_init, chi2_broad) ==
    ~(alldropped(fit) \/ FLt(chi2_init, chi2_broad))

\* the decision between the two fits, with the chi2 of both on the pixels of
\* the broad windows
decide(l, model, broadfit, pix, chi2_init, chi2_broad) ==
    [l EXCEPT !.pc = "output",
              !.EMLineModel = model,
              !.nfree = count_free_parameters(model),
              !.broadfit = broadfit,
              !.broadlinepix = pix,
              !.linechi2_init = chi2_init,
              !.linechi2_broad = chi2_broad,
              !.used_broad = use_broad(broadfit, chi2_init, chi2_broad),
              !.finalfit = IF use_broad(broadfit, chi2_init, chi2_broad)
                           THEN broadfit ELSE l.initfit]

\* the broad stage on the restored model: the fit as the optimizer returned
\* it, cleaned and compared with the narrow fit
broad_stage(l, model, fit, pix) ==
    decide([l EXCEPT !.fitted = fit], model,
           clean_linefit(fit, l.init_amplitudes), pix,
           linechi2(l.emlineivar, l.emlineflux, l.initfit.spectrum, pix),
           linechi2(l.emlineivar, l.emlineflux, fit.spectrum, pix))

\* the console goes on after the narrow fit.  With the broad stage entered,
\* np.hstack(broadlinepix) raises ValueError on an empty list; otherwise the
\* broad Balmer lines are restored, the model is fitted and cleaned again and
\* the better of the two fits is kept.  With the stage not entered the narrow
\* fit is kept and both chi2 are 0.0.
fit_broad ==
    /\ lf.pc = "pdb908"
    /\ IF enter_broad_stage(lf.broadlinefit, broadlinepix(lf.data))
       THEN IF Len(broadlinepix(lf.data)) = 0
            THEN lf' = [lf EXCEPT !.pc = "raised", !.exc = "ValueError"]
            ELSE \E narrow \in RefitOutcomes, broad \in BroadOutcomes,
                    kind \in ModelSpectra :
                    /\ replays(lf, "broad", <<narrow, broad, kind>>)
                    /\ lf' = broad_stage(chose(lf, "broad", <<narrow, broad, kind>>),
                            restore_broad(lf.EMLineModel, lf.init_amplitudes,
                                          lf.init_sigmas),
                            fitter(restore_broad(lf.EMLineModel, lf.init_amplitudes,
                                                 lf.init_sigmas),
                                   narrow, broad, kind, lf.emlineflux),
                            hstack(broadlinepix(lf.data)))
       ELSE lf' = [lf EXCEPT !.pc = "output", !.finalfit = lf.initfit,
                             !.linechi2_init = Zero, !.linechi2_broad = Zero]
    /\ UNCHANGED <<ctor, grids, cf, data, cs, lm, batch, raw>>

\* the columns of a line in the table of init_output: zeros, and chi2_default
init_row ==
    [AMP |-> Zero, AMP_IVAR |-> Zero, FLUX |-> Zero, FLUX_IVAR |-> Zero,
     BOXFLUX |-> Zero, BOXFLUX_IVAR |-> Zero, VSHIFT |-> Zero, SIGMA |-> Zero,
     CONT |-> Zero, CONT_IVAR |-> Zero, EW |-> Zero, EW_IVAR |-> Zero,
     FLUX_LIMIT |-> Zero, EW_LIMIT |-> Zero, CHI2 |-> chi2_default, NPIX |-> 0]

\* val = pinfo.value; if pinfo.fixed: val = 0.0
val(fit, k) == IF fit.fixed[k] THEN Zero ELSE fit.value[k]

\* the doublet ratio that stands for the amplitude of a line, and the line
\* whose amplitude it multiplies
ratio_of(linename) ==
    IF linename = "oii_3726" THEN "oii_doublet_ratio"
    ELSE IF linename = "sii_6731" THEN "sii_doublet_ratio"
    ELSE "mgii_doublet_ratio"

partner_of(linename) ==
    IF linename = "oii_3726" THEN "oii_3729"
    ELSE IF linename = "sii_6731" THEN "sii_6716"
    ELSE "mgii_2803"

\* the loop over finalfit.param_names, for the parameters of one line:
\*   result['OII_3726_AMP'] = val * finalfit.oii_3729_amp  (and the two
\*   other doublets);  result[pinfo.name.upper()] = val
filled_row(fit, linename) ==
    [init_row EXCEPT
        !.AMP = IF hasattr(linename \o "_amp")
                THEN val(fit, pindex(linename \o "_amp"))
                ELSE FMul(val(fit, pindex(ratio_of(linename))),
                          getvalue(fit, partner_of(linename) \o "_amp")),
        !.VSHIFT = val(fit, pindex(linename \o "_vshift")),
        !.SIGMA = val(fit, pindex(linename \o "_sigma"))]

np_add(a, b) == np_array([p \in 1..Len(a) |-> FAdd(a[p], b[p])])

\* result = self.init_output(...); emlinemodel = finalfit(emlinewave); the
\* full-spectrum chi2; the chi2 of the two fits; the parameters;
\* specflux_nolines = specflux - emlinemodel
fit_output ==
    /\ lf.pc = "output"
    /\ lf' = [lf EXCEPT
          !.pc = "measure",
          !.emlinemodel = lf.finalfit.spectrum,
          !.specflux_nolines = np_subtract(lf.specflux, lf.finalfit.spectrum),
          !.result =
             [RCHI2 |-> chi2(count_free_parameters(lf.finalfit), lf.emlineivar,
                             lf.specflux,
                             np_add(lf.finalfit.spectrum, hstack(lf.data.continuummodel))),
              LINERCHI2_BROAD |-> lf.linechi2_broad,
              DELTA_LINERCHI2 |-> FSub(lf.linechi2_init, lf.linechi2_broad),
              MGII_DOUBLET_RATIO |-> val(lf.finalfit, pindex("mgii_doublet_ratio")),
              OII_DOUBLET_RATIO |-> val(lf.finalfit, pindex("oii_doublet_ratio")),
              SII_DOUBLET_RATIO |-> val(lf.finalfit, pindex("sii_doublet_ratio")),
              NARROW_Z |-> Zero, NARROW_SIGMA |-> Zero,
              BROAD_Z |-> Zero, BROAD_SIGMA |-> Zero,
              UV_Z |-> Zero, UV_SIGMA |-> Zero,
              line |-> np_array([i \in 1..Len(linetable) |->
                          filled_row(lf.finalfit, linetable[i].name)])]]
    /\ UNCHANGED <<ctor, grids, cf, data, cs, lm, batch, raw>>

\* the largest r with r * r <= x, between lo and hi
RECURSIVE isqrt(_, _, _)
isqrt(x, lo, hi) ==
    IF lo >= hi THEN lo
    ELSE IF ((lo + hi + 1) \div 2) * ((lo + hi + 1) \div 2) <= x
    THEN isqrt(x, (lo + hi + 1) \div 2, hi)
    ELSE isqrt(x, lo, (lo + hi + 1) \div 2 - 1)

\* np.sqrt of a float >= 0
FSqrt(a) ==
    IF a[2] % 2 = 0
    THEN FNorm(isqrt(a[1] * 2^20, 0, 2^15), (a[2] \div 2) - 10)
    ELSE FNorm(isqrt(2 * a[1] * 2^20, 0, 2^15), ((a[2] - 1) \div 2) - 10)

\* np.sqrt(2.0 * np.pi)
sqrt_2pi == FR(25066, 10000)

\* linezwave = restwave * (1 + redshift + vshift / C_LIGHT), in 0.01 Angstrom
linezwave(line, redshift, vshift) ==
    (line.restwave * 100 * (redshift[1] + redshift[2])) \div redshift[2]
        + (line.restwave * FInt(vshift) * 100) \div C_LIGHT

\* the width a line is measured with, in km/s: the fitted one, or
\*   if linesigma == 0: limitsigma_narrow for a broad Balmer line,
\*   limitsigma_broad for every other line
linesigma(line, sigma) ==
    IF sigma = Zero
    THEN (IF line.isbroad /\ line.isbalmer THEN limitsigma_narrow ELSE limitsigma_broad)
    ELSE FInt(sigma)

\* linesigma_ang = linesigma * linezwave / C_LIGHT, in 0.01 Angstrom
linesigma_ang(sigma, zwave) == (sigma * zwave) \div C_LIGHT

\* np.where((wave >= lo) * (wave <= hi))[0], pixels counted from 1
window(wave, lo, hi) ==
    SelectSeq([p \in 1..Len(wave) |-> p],
              LAMBDA p : 100 * wave[p] >= lo /\ 100 * wave[p] <= hi)

\* np.where((wave > lo) * (wave < hi) * (ivar > 0))[0]
open_window(wave, ivar, lo, hi) ==
    SelectSeq([p \in 1..Len(wave) |-> p],
              LAMBDA p : 100 * wave[p] > lo /\ 100 * wave[p] < hi /\ FLt(Zero, ivar[p]))

\* the pixels of indx where v is positive
positive(indx, v) == SelectSeq(indx, LAMBDA p : FLt(Zero, v[p]))

mostly_masked_from_30(oivar, indx) ==
    /\ Len(indx) > 0
    /\ 10 * Cardinality({i \in 1..Len(indx) : oivar[indx[i]] = Zero}) >= 3 * Len(indx)

\* np.sum(oemlineivar[lineindx] == 0) / len(lineindx) > 0.3
mostly_masked(oivar, indx) ==
    /\ Len(indx) > 0
    /\ 10 * Cardinality({i \in 1..Len(indx) : oivar[indx[i]] = Zero}) > 3 * Len(indx)

\* np.argmin(np.abs(emlinewave - linezwave)), counted from 1
nearest(wave, zwave) ==
    CHOOSE p \in 1..Len(wave) :
        /\ \A q \in 1..Len(wave) : Abs(100 * wave[p] - zwave) <= Abs(100 * wave[q] - zwave)
        /\ \A q \in 1..p - 1 : Abs(100 * wave[q] - zwave) > Abs(100 * wave[p] - zwave)

\* the four pixels around the nearest one, p counted from 1: a negative
\* index counts from the end of the array
\*   if (lineindx-pad[0]) < 0 or (lineindx+pad[-1]) >= len(emlineivar): none
padded(p, first, n) ==
    IF p - 1 + first + 3 >= n THEN <<>>
    ELSE [i \in 1..4 |-> IF p - 1 + first + i - 1 < 0
                         THEN n + (p - 1 + first + i - 1) + 1
                         ELSE p + first + i - 1]

\* the pixels of a line with three good pixels or fewer in its window, the
\* line between the first and the last pixel: those of the four pixels
\* around the nearest one whose original inverse variance is positive
padded_around(wave, oivar, zwave, p) ==
    positive(padded(p, (IF 100 * wave[p] - zwave > 0 THEN -2 ELSE -1), Len(wave)), oivar)

\* the pixels a line is measured on
measured_pixels(wave, oivar, zwave, indx) ==
    IF zwave > 100 * wave[1] /\ zwave < 100 * wave[Len(wave)] /\ Len(indx) <= 3
    THEN padded_around(wave, oivar, zwave, nearest(wave, zwave))
    ELSE indx

\* np.diff(np.percentile(v, [25, 75]))[0] / 1.349
robust_sigma(v) ==
    FDiv(FSub(np_percentile(v, 75, 1), np_percentile(v, 25, 1)), FR(1349, 1000))

\* 1 / np.sum(1 / ivar)
inverse_sum(ivar) == FInv(FSum(np_array([p \in 1..Len(ivar) |-> FInv(ivar[p])])))

\* the amplitude is positive: the flux, its inverse variance and the chi2
\* of the line, with dof = npix - 3
with_flux(row, sa, boxflux_ivar, chisum, npix) ==
    IF FLt(Zero, row.AMP)
    THEN [row EXCEPT !.FLUX = FMul(row.AMP, FMul(sqrt_2pi, FR(sa, 100))),
                     !.FLUX_IVAR = boxflux_ivar,
                     !.CHI2 = FDiv(chisum, F(npix - 3))]
    ELSE row

\* if amp_sigma > 0: AMP_IVAR = 1 / amp_sigma**2
with_amp_ivar(row, amp_sigma) ==
    IF FLt(Zero, amp_sigma) THEN [row EXCEPT !.AMP_IVAR = FInv(FSq(amp_sigma))] ELSE row

\* if npix > 3: the boxcar flux, the inverse variance of the amplitude, and
\* the flux and chi2 of the line
boxcar(row, l, indx, sa) ==
    IF Len(indx) > 3
    THEN with_flux(
            with_amp_ivar(
                [row EXCEPT !.NPIX = Len(indx),
                            !.BOXFLUX = FSum(take(l.emlineflux, indx)),
                            !.BOXFLUX_IVAR = inverse_sum(take(l.emlineivar, indx))],
                robust_sigma(take(l.specflux_nolines, indx))),
            sa, inverse_sum(take(l.emlineivar, indx)),
            chi2_sum(take(l.emlineivar, indx), take(l.emlineflux, indx),
                     take(l.emlinemodel, indx)),
            Len(indx))
    ELSE [row EXCEPT !.NPIX = Len(indx)]

\* scipy.stats.sigmaclip(v, low=3, high=3): the values outside mean +- 3 std
\* are dropped until none is
mean(v) == FDiv(FSum(v), F(Len(v)))

variance(v, m) ==
    FDiv(FSum(np_array([p \in 1..Len(v) |-> FSq(FSub(v[p], m))])), F(Len(v)))

within_3std(x, m, var) == FLe(FSq(FSub(x, m)), FMul(F(9), var))

clip_once(v, m) == SelectSeq(v, LAMBDA x : within_3std(x, m, variance(v, m)))

RECURSIVE sigmaclip(_)
sigmaclip(v) ==
    IF v = <<>> THEN v
    ELSE IF Len(clip_once(v, mean(v))) = Len(v) THEN v
    ELSE sigmaclip(clip_once(v, mean(v)))

\* civar = (np.sqrt(len(indx)) / csig)**2 if csig > 0 else 0.0
cont_ivar(n, csig) ==
    IF FLt(Zero, csig) THEN FSq(FDiv(FSqrt(F(n)), csig)) ELSE Zero

\* if len(indx) >= 3: the continuum and its inverse variance from the
\* clipped fluxes of the pixels beside the line
clipped_cont(row, clipflux, n) ==
    IF Len(clipflux) > 0
    THEN [row EXCEPT !.CONT = np_median(clipflux),
                     !.CONT_IVAR = cont_ivar(n, robust_sigma(clipflux))]
    ELSE [row EXCEPT !.CONT = Zero, !.CONT_IVAR = Zero]

with_cont(row, nolines, n) ==
    IF n >= 3 THEN clipped_cont(row, sigmaclip(nolines), n) ELSE row

\* if CONT != 0 and CONT_IVAR != 0: the equivalent width and the limits,
\* with factor = 1 / ((1 + redshift) * CONT)
equivalent_width(row, factor, fluxlimit) ==
    [row EXCEPT !.EW = FMul(row.FLUX, factor),
                !.EW_IVAR = FDiv(row.FLUX_IVAR, FSq(factor)),
                !.FLUX_LIMIT = fluxlimit,
                !.EW_LIMIT = FMul(fluxlimit, factor)]

with_ew(row, redshift, sa) ==
    IF row.CONT # Zero /\ row.CONT_IVAR # Zero
    THEN equivalent_width(row,
            FInv(FMul(FAdd(F(1), float(redshift)), row.CONT)),
            FDiv(FMul(sqrt_2pi, FR(sa, 100)), FSqrt(row.CONT_IVAR)))
    ELSE row

\* the pixels from 3 to 10 sigma on both sides of the line
cont_pixels(wave, oivar, zwave, sa) ==
    open_window(wave, oivar, zwave - 10 * sa, zwave - 3 * sa)
        \o open_window(wave, oivar, zwave + 3 * sa, zwave + 10 * sa)

continuum_and_ew(row, l, indx, sa) ==
    with_ew(with_cont(row, take(l.specflux_nolines, indx), Len(indx)),
            l.data.zredrock, sa)

\* the body of the loop for a line whose window is not mostly masked
measure_line(row, l, zwave, sa) ==
    continuum_and_ew(
        boxcar(row, l,
               measured_pixels(l.emlinewave, l.oemlineivar, zwave,
                   positive(window(l.emlinewave, zwave - 2 * sa, zwave + 2 * sa),
                            l.emlineivar)),
               sa),
        l, cont_pixels(l.emlinewave, l.oemlineivar, zwave, sa), sa)

\* the body of the loop: a line whose window is mostly masked in the
\* original inverse variance has AMP, VSHIFT and SIGMA set to 0.0
measured_at(row, l, zwave, sa) ==
    IF mostly_masked(l.oemlineivar, window(l.emlinewave, zwave - 2 * sa, zwave + 2 * sa))
    THEN [row EXCEPT !.AMP = Zero, !.VSHIFT = Zero, !.SIGMA = Zero]
    ELSE measure_line(row, l, zwave, sa)

measured_with(row, l, line, zwave) ==
    measured_at(row, l, zwave, linesigma_ang(linesigma(line, row.SIGMA), zwave))

measured(row, l, line) ==
    measured_with(row, l, line, linezwave(line, l.data.zredrock, row.VSHIFT))

\* for oneline in self.EMLineModel.linetable[self.EMLineModel.inrange]
measured_rows(l) ==
    np_array([i \in 1..Len(linetable) |->
        IF l.EMLineModel.inrange[i] THEN measured(l.result.line[i], l, linetable[i])
        ELSE l.result.line[i]])

\* the place of a line in the catalogue
line_index(name) == CHOOSE i \in 1..Len(linetable) : linetable[i].name = name

\* clean up the doublets:
\*   if result[A_AMP] == 0 and result[A_NPIX] > 0: B_AMP = B_FLUX = B_EW = 0.0
\* for (A, B) = (OIII_5007, OIII_4959), (NII_6584, NII_6548) and
\* (OII_7320, OII_7330)
doublets ==
    << <<"oiii_5007", "oiii_4959">>, <<"nii_6584", "nii_6548">>,
       <<"oii_7320", "oii_7330">> >>

zeroed_by(rows, name) ==
    \E d \in 1..Len(doublets) :
        /\ doublets[d][2] = name
        /\ rows[line_index(doublets[d][1])].AMP = Zero
        /\ rows[line_index(doublets[d][1])].NPIX > 0

clean_doublets(rows) ==
    np_array([i \in 1..Len(rows) |->
        IF zeroed_by(rows, linetable[i].name)
        THEN [rows[i] EXCEPT !.AMP = Zero, !.FLUX = Zero, !.EW = Zero]
        ELSE rows[i]])

\* linesnr = AMP * np.sqrt(AMP_IVAR) > 2, for a line with more than three
\* pixels and a positive amplitude
significant(row) ==
    /\ row.NPIX > 3
    /\ FLt(Zero, row.AMP)
    /\ FLt(F(2), FMul(row.AMP, FSqrt(row.AMP_IVAR)))

\* the class of a line: broad Balmer, UV, or narrow
line_class(line) ==
    IF line.isbroad THEN (IF line.isbalmer THEN "BROAD" ELSE "UV") ELSE "NARROW"

\* the lines in range of a class that are significant, in catalogue order
significant_lines(l, rows, class) ==
    SelectSeq([i \in 1..Len(linetable) |-> i],
              LAMBDA i : /\ l.EMLineModel.inrange[i]
                         /\ line_class(linetable[i]) = class
                         /\ significant(rows[i]))

\* linez = redshift + VSHIFT / C_LIGHT
linez(redshift, vshift) == FAdd(float(redshift), FDiv(vshift, F(C_LIGHT)))

\* np.mean of the redshifts of the lines, the redshift of the object where
\* there is none; np.mean of their widths, the column left as it is where
\* there is none
mean_z(l, rows, lines) ==
    IF Len(lines) > 0
    THEN mean(np_array([i \in 1..Len(lines) |->
                linez(l.data.zredrock, rows[lines[i]].VSHIFT)]))
    ELSE float(l.data.zredrock)

mean_sigma(rows, lines) ==
    IF Len(lines) > 0
    THEN mean(np_array([i \in 1..Len(lines) |->
                F(linesigma(linetable[lines[i]], rows[lines[i]].SIGMA))]))
    ELSE Zero

\* the table with the measured lines and the averages of the classes
measured_result(l, rows) ==
    [l.result EXCEPT
        !.line = clean_doublets(rows),
        !.NARROW_Z = mean_z(l, rows, significant_lines(l, rows, "NARROW")),
        !.NARROW_SIGMA = mean_sigma(rows, significant_lines(l, rows, "NARROW")),
        !.BROAD_Z = mean_z(l, rows, significant_lines(l, rows, "BROAD")),
        !.BROAD_SIGMA = mean_sigma(rows, significant_lines(l, rows, "BROAD")),
        !.UV_Z = mean_z(l, rows, significant_lines(l, rows, "UV")),
        !.UV_SIGMA = mean_sigma(rows, significant_lines(l, rows, "UV"))]

\* the loop over the lines in range, the doublets, the averages; fit returns
fit_measure ==
    /\ lf.pc = "measure"
    /\ lf' = [lf EXCEPT !.pc = "returned", !.result = measured_result(lf, measured_rows(lf))]
    /\ UNCHANGED <<ctor, grids, cf, data, cs, lm, batch, raw>>

NextFit ==
    \/ fit_setup
    \/ fit_build_linemodels
    \/ build_linemodels
    \/ pdb_continue
    \/ build_linemodels_resume
    \/ fit_linemodels_raised
    \/ pdb_jump_model
    \/ fit_init_guesses
    \/ fit_narrow_setup
    \/ fit_least_squares
    \/ pdb_jump_fitter
    \/ fit_initfit
    \/ fit_broad
    \/ fit_output
    \/ fit_measure

SpecFit == InitFit /\ [][NextFit]_vars

-----------------------------------------------------------------------------
(* The line fit of an object whose red cameras cover H-alpha and the [SII] *)
(* doublet, so that sii_6716 and sii_6731 are in range                     *)

\* data['wave'] of the cameras r and z
doublet_wave ==
    << <<6550, 6551, 6552, 6553, 6554, 6555, 6556, 6557, 6558, 6559,
         6560, 6561, 6562, 6563, 6564, 6565, 6566, 6567, 6568, 6569>>,
       <<6712, 6713, 6714, 6715, 6716, 6717, 6718, 6719, 6720, 6721, 6722,
         6723, 6724, 6725, 6726, 6727, 6728, 6729, 6730, 6731, 6732, 6733,
         6734, 6735, 6736, 6737>> >>

\* the pixels whose inverse variance is 0: none, those around sii_6731, and
\* those around sii_6716
DoubletZeroed ==
    {{}, {6727, 6728, 6729, 6730, 6731, 6732, 6733, 6734, 6735},
     {6712, 6713, 6714, 6715, 6716, 6717, 6718, 6719, 6720}}

\* data['linename'] and data['linepix'] on the two cameras
doublet_linepix ==
    << << <<"halpha", <<11, 12, 13, 14, 15, 16, 17>> >>,
          <<"halpha_broad", <<8, 9, 10, 11, 12, 13, 14, 15, 16, 17, 18, 19, 20>> >> >>,
       << <<"sii_6716", <<2, 3, 4, 5, 6, 7, 8>> >>,
          <<"sii_6731", <<17, 18, 19, 20, 21, 22, 23>> >> >> >>

\* data['coadd_linename'] and data['coadd_linepix']
doublet_coadd ==
    << <<"halpha", <<11, 12, 13, 14, 15, 16, 17>> >>,
       <<"halpha_broad", <<8, 9, 10, 11, 12, 13, 14, 15, 16, 17, 18, 19, 20>> >>,
       <<"sii_6716", <<22, 23, 24, 25, 26, 27, 28>> >>,
       <<"sii_6731", <<37, 38, 39, 40, 41, 42, 43>> >> >>

DoubletData(zeroed, sigmas) ==
    SpecData(<<"r", "z">>, doublet_wave, zeroed, doublet_linepix, doublet_coadd, sigmas)

\* data['wave'] of the cameras r and z of an object with the [OII] 7320,7330
\* doublet in range
oii_wave ==
    << <<6550, 6551, 6552, 6553, 6554, 6555, 6556, 6557, 6558, 6559,
         6560, 6561, 6562, 6563, 6564, 6565, 6566, 6567, 6568, 6569>>,
       <<7314, 7315, 7316, 7317, 7318, 7319, 7320, 7321, 7322, 7323, 7324,
         7325, 7326, 7327, 7328, 7329, 7330, 7331, 7332, 7333, 7334, 7335,
         7336>> >>

oii_linepix ==
    << << <<"halpha", <<11, 12, 13, 14, 15, 16, 17>> >>,
          <<"halpha_broad", <<8, 9, 10, 11, 12, 13, 14, 15, 16, 17, 18, 19, 20>> >> >>,
       << <<"oii_7320", <<4, 5, 6, 7, 8, 9, 10>> >>,
          <<"oii_7330", <<14, 15, 16, 17, 18, 19, 20>> >> >> >>

oii_coadd ==
    << <<"halpha", <<11, 12, 13, 14, 15, 16, 17>> >>,
       <<"halpha_broad", <<8, 9, 10, 11, 12, 13, 14, 15, 16, 17, 18, 19, 20>> >>,
       <<"oii_7320", <<24, 25, 26, 27, 28, 29, 30>> >>,
       <<"oii_7330", <<34, 35, 36, 37, 38, 39, 40>> >> >>

OiiData(sigmas) ==
    SpecData(<<"r", "z">>, oii_wave, {}, oii_linepix, oii_coadd, sigmas)

InitDoublet ==
    /\ ctor = None /\ grids = None /\ cf = None /\ data = None /\ cs = None
    /\ lm = [pc |-> "unused"] /\ batch = None /\ raw = None
    /\ lf \in {new_linefit(DoubletData(zeroed, sigmas), b) :
                 zeroed \in DoubletZeroed, sigmas \in LineSigmas, b \in BOOLEAN}
             \cup {new_linefit(OiiData(sigmas), b) :
                 sigmas \in LineSigmas, b \in BOOLEAN}

SpecDoublet == InitDoublet /\ [][NextFit]_vars

-----------------------------------------------------------------------------
(* The decomposition of one object, continuum_specfit followed by          *)
(* EMLineFit.fit, run twice on the same data with the same two instances   *)

\* the objects of the continuum fit: one with signal on every camera, one
\* with a faint blue camera, one whose pixels are all in the line mask
TwiceObjects ==
    << SpecObject(F(0), <<MaxFlux, MaxFlux, MaxFlux>>, <<F(1), F(1), F(1)>>,
                  <<FALSE, FALSE, FALSE>>),
       SpecObject(F(1), <<1, MaxFlux, 1>>, <<F(1), F(1), F(1)>>,
                  <<FALSE, FALSE, FALSE>>),
       SpecObject(F(0), <<1, 1, 1>>, <<F(1), F(1), F(1)>>, <<TRUE, TRUE, TRUE>>) >>

\* solve_vdisp of the instance that fits each of them
TwiceSolveVdisp == <<TRUE, FALSE, FALSE>>

\* the seeds of the widths when the widths of the object were measured
measured_sigmas == CHOOSE sg \in LineSigmas : sg.narrow_snr # Zero

\* the arrays of their line fits: H-beta with masked pixels and the windows
\* of two cameras, and the [SII] doublet with masked pixels
TwiceData ==
    << FitData({4859, 4860, 4861},
               CHOOSE lp \in LinePixels : Len(lp[1]) = 2, measured_sigmas),
       DoubletData(CHOOSE z \in DoubletZeroed : 6731 \in z, measured_sigmas),
       FitData({}, CHOOSE lp \in LinePixels : Len(lp[1]) = 2, measured_sigmas) >>

\* nothing has run yet: the line fit waits for the continuum
first_run == [run |-> 1, continuum |-> <<>>, lines |-> <<>>]

waiting(l) == [l EXCEPT !.pc = "continuum"]

InitTwice ==
    /\ ctor = [AV |-> AV_small, vdisp |-> vdisp_small]
    /\ grids = [status |-> "unused"]
    /\ \E i \in 1..Len(TwiceObjects) :
          /\ cf = ContinuumFit(TwiceSolveVdisp[i])
          /\ data = TwiceObjects[i]
          /\ lf = waiting(new_linefit(TwiceData[i], FALSE))
    /\ cs = new_fit("specfit")
    /\ lm = [pc |-> "unused"] /\ batch = None
    /\ raw = first_run

\* the continuum has returned: emfit = EMFit.fit(data, continuum)
fit_call ==
    /\ cs.pc = "done" /\ lf.pc = "continuum"
    /\ lf' = [lf EXCEPT !.pc = "start"]
    /\ UNCHANGED <<ctor, grids, cf, data, cs, lm, batch, raw>>

\* the decomposition is over: the line fit returned, or one of the two fits
\* raised
decomposed ==
    \/ cs.pc = "raised" /\ lf.pc = "continuum"
    \/ lf.pc \in {"returned", "raised"}

\* what a decomposition leaves to its caller: the record of the continuum
\* fit, and the table or the exception of the line fit
outcome(l) == [pc |-> l.pc, exc |-> l.exc, result |-> l.result]

\* the same call again, on the same data and with the same instances: the
\* locals are new, self.EMLineModel is still bound to the model of the
\* first call, and the optimizer is the same function
decompose_again ==
    /\ raw.run = 1 /\ decomposed
    /\ raw' = [run |-> 2, continuum |-> cs, lines |-> outcome(lf)]
    /\ cs' = new_fit("specfit")
    /\ lf' = [waiting(new_linefit(lf.data, lf.broadlinefit)) EXCEPT
                 !.EMLineModel = lf.EMLineModel, !.replay = lf.chosen]
    /\ UNCHANGED <<ctor, grids, cf, data, lm, batch>>

NextTwice ==
    \/ continuum_specfit_prepare
    \/ specfit_fit_AV
    \/ specfit_fit_vdisp
    \/ specfit_final
    \/ fit_call
    \/ fit_setup
    \/ fit_build_linemodels
    \/ build_linemodels
    \/ pdb_continue
    \/ build_linemodels_resume
    \/ fit_linemodels_raised
    \/ pdb_jump_model
    \/ fit_init_guesses
    \/ fit_narrow_setup
    \/ fit_least_squares
    \/ pdb_jump_fitter
    \/ fit_initfit
    \/ fit_broad
    \/ fit_output
    \/ fit_measure
    \/ decompose_again

SpecTwice == InitTwice /\ [][NextTwice]_vars

-----------------------------------------------------------------------------
(* The chi2 of the line fitter on its own: EMLineFit.chi2 and the chi2 of  *)
(* one line in the measurement loop                                        *)

\* the number of pixels of the spectra the chi2 are computed on
NPixChi2 == 4

\* the largest number of free parameters
MaxFree == 5

\* the inverse variances: every pattern of zeros; the fluxes and the models
Chi2Ivars == [1..NPixChi2 -> {Zero, F(1)}]

Chi2Fluxes == {[p \in 1..NPixChi2 |-> F(p)], [p \in 1..NPixChi2 |-> F(1)]}

Chi2Models == {[p \in 1..NPixChi2 |-> Zero], [p \in 1..NPixChi2 |-> F(1)]}

\* the first n pixels
first_pixels(n) == [p \in 1..n |-> p]

\* the arrays, the number of free parameters, the pixels of a line (those
\* with a positive inverse variance among the first n) and the row of the
\* line with its fitted amplitude
new_chi2(nfree, ivar, flux, model, n, amp) ==
    [pc |-> "chi2", nfree |-> nfree,
     emlineivar |-> ivar, emlineflux |-> flux, emlinemodel |-> model,
     specflux_nolines |-> np_subtract(flux, model),
     lineindx |-> positive(first_pixels(n), ivar),
     row |-> [init_row EXCEPT !.AMP = amp],
     rchi2 |-> Zero]

InitChi2 ==
    /\ ctor = None /\ grids = None /\ cf = None /\ data = None /\ cs = None
    /\ lm = None /\ batch = None /\ raw = None
    /\ lf \in {new_chi2(nfree, ivar, fl, model, n, amp) :
                 nfree \in 0..MaxFree, ivar \in Chi2Ivars,
                 fl \in Chi2Fluxes, model \in Chi2Models,
                 n \in 0..NPixChi2, amp \in {Zero, F(2)}}

\* self.chi2(bestfit, emlinewave, emlineflux, emlineivar)
chi2_call ==
    /\ lf.pc = "chi2"
    /\ lf' = [lf EXCEPT !.pc = "line",
                        !.rchi2 = chi2(lf.nfree, lf.emlineivar, lf.emlineflux,
                                       lf.emlinemodel)]
    /\ UNCHANGED <<ctor, grids, cf, data, cs, lm, batch, raw>>

\* npix = len(lineindx) and what follows for one line, of width 1 Angstrom
line_chi2 ==
    /\ lf.pc = "line"
    /\ lf' = [lf EXCEPT !.pc = "returned",
                        !.row = boxcar(lf.row, lf, lf.lineindx, 100)]
    /\ UNCHANGED <<ctor, grids, cf, data, cs, lm, batch, raw>>

NextChi2 == chi2_call \/ line_chi2

SpecChi2 == InitChi2 /\ [][NextChi2]_vars

-----------------------------------------------------------------------------
(* The batch driver: nyxgalaxy.main and nyxfit_one                         *)

\* the largest number of objects between --first and --last
MaxObjects == 3

\* what fitting one object does: CFit.fnnls_continuum(data) and
\* EMFit.fit(data, continuum) return, or one of them raises
Fits == {"returns", "continuum_raises", "line_raises"}

\* the sequences over a set with n elements
Seqs(S, n) == [1..n -> S]

\* the row of an object in the table of init_nyxgalaxy, and the row
\* nyxfit_one returns for it
empty_row(indx) == <<indx, "empty">>

fitted_row(indx) == <<indx, "fitted">>

\* main up to the fit: the objects selected, the number of cores, the table
\* with one row by object, and nothing fitted or written yet
new_batch(fits, nproc) ==
    [pc |-> "fit", nproc |-> nproc, fits |-> fits,
     nyxgalaxy |-> [i \in 1..Len(fits) |-> empty_row(i)],
     out |-> <<>>, done |-> {}, exc |-> "", written |-> <<>>]

InitBatch ==
    /\ ctor = None /\ grids = None /\ cf = None /\ data = None /\ cs = None
    /\ lm = None /\ lf = None /\ raw = None
    /\ batch \in {new_batch(fits, nproc) :
                    fits \in UNION {Seqs(Fits, n) : n \in 1..MaxObjects},
                    nproc \in {1, 2}}

\* the exception of an object whose fit raises
raised_by(fit) == IF fit = "continuum_raises" THEN "continuum" ELSE "line"

\* out = [nyxfit_one(*_fitargs) for _fitargs in fitargs], one object: the
\* row is appended, or the exception leaves the comprehension and main
nyxfit_one ==
    /\ batch.pc = "fit" /\ batch.nproc = 1
    /\ Len(batch.out) < Len(batch.fits)
    /\ batch' =
          IF batch.fits[Len(batch.out) + 1] = "returns"
          THEN [batch EXCEPT !.out = Append(batch.out, fitted_row(Len(batch.out) + 1))]
          ELSE [batch EXCEPT !.pc = "raised", !.out = <<>>,
                             !.exc = raised_by(batch.fits[Len(batch.out) + 1])]
    /\ UNCHANGED <<ctor, grids, cf, data, cs, lm, lf, raw>>

\* the comprehension is through
fit_serial_done ==
    /\ batch.pc = "fit" /\ batch.nproc = 1
    /\ Len(batch.out) = Len(batch.fits)
    /\ batch' = [batch EXCEPT !.pc = "vstack"]
    /\ UNCHANGED <<ctor, grids, cf, data, cs, lm, lf, raw>>

\* P.map(_nyxfit_one, fitargs), one task of a worker of the pool
pool_nyxfit_one ==
    /\ batch.pc = "fit" /\ batch.nproc > 1
    /\ \E i \in 1..Len(batch.fits) \ batch.done :
          batch' = [batch EXCEPT !.done = batch.done \cup {i}]
    /\ UNCHANGED <<ctor, grids, cf, data, cs, lm, lf, raw>>

\* P.map raises in main the exception of a task that raised, at once or
\* when the other tasks are through by the version of multiprocessing;
\* leaving the with block terminates the pool
pool_map_raises ==
    /\ batch.pc = "fit" /\ batch.nproc > 1
    /\ \E i \in batch.done :
          /\ batch.fits[i] # "returns"
          /\ batch' = [batch EXCEPT !.pc = "raised", !.exc = raised_by(batch.fits[i])]
    /\ UNCHANGED <<ctor, grids, cf, data, cs, lm, lf, raw>>

\* P.map returns the rows in the order of fitargs once every task returned
pool_map_returns ==
    /\ batch.pc = "fit" /\ batch.nproc > 1
    /\ batch.done = 1..Len(batch.fits)
    /\ \A i \in batch.done : batch.fits[i] = "returns"
    /\ batch' = [batch EXCEPT !.pc = "vstack",
                              !.out = [i \in 1..Len(batch.fits) |-> fitted_row(i)]]
    /\ UNCHANGED <<ctor, grids, cf, data, cs, lm, lf, raw>>

\* nyxgalaxy = vstack(out); nyxgalaxy.write(nyxgalaxyfile, overwrite=True)
write_results ==
    /\ batch.pc = "vstack"
    /\ batch' = [batch EXCEPT !.pc = "done", !.nyxgalaxy = batch.out,
                              !.written = batch.out]
    /\ UNCHANGED <<ctor, grids, cf, data, cs, lm, lf, raw>>

NextBatch ==
    \/ nyxfit_one
    \/ fit_serial_done
    \/ pool_nyxfit_one
    \/ pool_map_raises
    \/ pool_map_returns
    \/ write_results

SpecBatch == InitBatch /\ [][NextBatch]_vars

-----------------------------------------------------------------------------
(* C1 *)

NonNegative(coeff) == \A j \in 1..Len(coeff) : FLe(Zero, coeff[j])

\* the coefficient vectors a grid search holds: one per trial value, and the
\* interpolated one when it was asked for
SearchNonNegative(search, interpolated) ==
    search.searched =>
        /\ \A ii \in 1..Len(search.coeff) : NonNegative(search.coeff[ii])
        /\ interpolated => NonNegative(search.bestcoeff)

\* C1: every coefficient vector of the continuum solver is >= 0: those of
\* every trial value of a grid search, the interpolated bestcoeff, the one of
\* the fixed solve, and every entry written to CONTINUUM_COEFF.
C1_NonNegativeCoeff ==
    /\ SearchNonNegative(cs.AVsearch, cs.mode = "specfit" /\ cf.solve_vdisp)
    /\ SearchNonNegative(cs.vdsearch, FALSE)
    /\ cs.pc \in {"pack", "done"} => NonNegative(cs.coeff)
    /\ cs.pc = "done" => NonNegative(cs.result.CONTINUUM_COEFF)

\* a finished spectroscopic fit whose A(V) search was refined off the grid and
\* interpolated its coefficients, and whose solution has one template at
\* exactly 0 and the other positive
C1_Witness ==
    /\ cs.mode = "specfit" /\ cs.pc = "done" /\ cf.solve_vdisp
    /\ cs.AVsearch.warn = 0 /\ cs.AVsearch.xbest # cf.AV[1]
    /\ \E j \in 1..Len(cs.AVsearch.bestcoeff) : FLt(Zero, cs.AVsearch.bestcoeff[j])
    /\ \E j, k \in 1..Len(cs.result.CONTINUUM_COEFF) :
          /\ cs.result.CONTINUUM_COEFF[j] = Zero
          /\ FLt(Zero, cs.result.CONTINUUM_COEFF[k])

-----------------------------------------------------------------------------
(* C5 *)

\* the minimum of the chi-square curve of a search is at an end of the grid
AtEdge(search) ==
    search.searched /\ search.imin0 \in {0, Len(search.chi2grid) - 1}

\* C5: when the minimum of the chi-square curve is at index 0 or at the last
\* index, no parabola is fitted (fewer than three points reach minfit), the
\* search reports inverse variance 0, and the fit goes on with the nominal
\* value: it is the value of the final solve and of the output columns.
C5_EdgeMinimum ==
    /\ AtEdge(cs.AVsearch) =>
          /\ cs.AVsearch.npts < 3 /\ cs.AVsearch.warn # 0
          /\ cs.AVsearch.xivar = Zero /\ cs.AVivar = Zero
          /\ cs.AVbest = cf.AV_nominal
          /\ cs.pc = "done" =>
                /\ cs.result.CONTINUUM_AV = cf.AV_nominal
                /\ cs.result.CONTINUUM_AV_IVAR = Zero
                /\ cs.mode = "specfit" =>
                      cs.coeff = fnnls_parallel_fixed(
                          SSP2data(keep_ages(cf.sspflux, cs.agekeep), data.zredrock,
                                   <<cf.AV_nominal>>, <<cs.vdispbest>>, data.cameras),
                          cs.flux, cs.ivar).coeff
    /\ AtEdge(cs.vdsearch) =>
          /\ cs.vdsearch.npts < 3 /\ cs.vdsearch.warn # 0
          /\ cs.vdsearch.xivar = Zero /\ cs.vdispivar = Zero
          /\ cs.vdispbest = cf.vdisp_nominal
          /\ cs.pc = "done" =>
                /\ cs.result.CONTINUUM_VDISP = cf.vdisp_nominal
                /\ cs.result.CONTINUUM_VDISP_IVAR = Zero
                /\ cs.coeff = fnnls_parallel_fixed(
                       SSP2data(keep_ages(cf.sspflux, cs.agekeep), data.zredrock,
                                <<cs.AVbest>>, <<cf.vdisp_nominal>>, data.cameras),
                       cs.flux, cs.ivar).coeff

\* a finished spectroscopic fit whose chi-square curve over A(V) has its
\* minimum at an end of the grid and whose curve over the velocity dispersion
\* has it at the last trial value, with a positive coefficient
C5_Witness ==
    /\ cs.mode = "specfit" /\ cs.pc = "done"
    /\ AtEdge(cs.AVsearch)
    /\ cs.vdsearch.searched /\ cs.vdsearch.imin0 = Len(cf.vdisp) - 1
    /\ cs.result.CONTINUUM_VDISP = cf.vdisp_nominal
    /\ cs.vdsearch.xbest # cf.vdisp_nominal
    /\ \E j \in 1..Len(cs.coeff) : FLt(Zero, cs.coeff[j])

-----------------------------------------------------------------------------
(* C6 *)

AllZero(v) == \A p \in 1..Len(v) : v[p] = Zero

\* C6: a continuum fit handed inverse variances that are all zero does not
\* raise: it ends with the nominal A(V) (and, for spectra, the nominal
\* velocity dispersion), an all-zero coefficient vector and chi2 = 0, on the
\* photometric and on the spectroscopic path.
C6_AllZeroIvar ==
    (cs.pc \in {"raised", "done"} /\ AllZero(cs.ivar)) =>
        /\ cs.pc = "done"
        /\ cs.result.CONTINUUM_AV = cf.AV_nominal
        /\ AllZero(cs.result.CONTINUUM_COEFF)
        /\ cs.result.CONTINUUM_RCHI2 = Zero
        /\ cs.mode = "specfit" => cs.result.CONTINUUM_VDISP = cf.vdisp_nominal

-----------------------------------------------------------------------------
(* C9 *)

IsSorted(s) == \A i \in 1..(Len(s) - 1) : RLe(s[i], s[i + 1])

NoDuplicates(s) == \A i, j \in 1..Len(s) : i # j => s[i] # s[j]

\* C9: the A(V) grid of a constructed ContinuumFit is sorted ascending, has
\* no duplicates, has minimum 0 at index 0, holds exactly one zero and holds
\* AV_nominal; the velocity-dispersion grid is sorted, duplicate-free and
\* holds vdisp_nominal.
C9_Grids ==
    grids.status = "built" =>
        /\ IsSorted(grids.AV)
        /\ NoDuplicates(grids.AV)
        /\ grids.AV[1] = RI(0)
        /\ Cardinality({i \in 1..Len(grids.AV) : grids.AV[i] = RI(0)}) = 1
        /\ grids.AV_nominal \in Range(grids.AV)
        /\ IsSorted(grids.vdisp)
        /\ NoDuplicates(grids.vdisp)
        /\ grids.vdisp_nominal \in Range(grids.vdisp)

\* the instance built from the literals of the source: 15 A(V) values that
\* hold the nominal 0 already, 13 velocity dispersions plus the nominal 150
C9_Witness ==
    /\ grids.status = "built"
    /\ ctor = [AV |-> AV_literals, vdisp |-> vdisp_literals]
    /\ Len(grids.AV) = 15
    /\ Len(grids.vdisp) = 14
    /\ grids.vdisp[4] = RI(150)

-----------------------------------------------------------------------------
(* C10 *)

\* the call went past the statements that fix the out-of-range lines
fixing_done(l) ==
    l.pc = "returned" \/ (l.pc = "raised" /\ l.exc # "NameError: zline")

\* the position (from 1) of a name in the parameter list
position(names, name) == np_where(names, name)[1] + 1

\* the parameter is fixed, its value is 0, and neither tie model leaves it
\* among the free parameters
fixed_at_zero(table, fix, k) ==
    /\ fix[k]
    /\ table.value[k] = RI(0)
    /\ (k - 1) \notin Ifree(table.tiedtoline1, fix)
    /\ (k - 1) \notin Ifree(table.tiedtoline2, fix)

out_of_range_fixed(l, lt) ==
    \A i \in 1..Len(lt), p \in 1..3 :
        (/\ ~within(zline(lt[i], l.redshift), l.wavelims)
         /\ param_name(lt[i].name, params[p]) \notin neverfix)
        => fixed_at_zero(l.linemodel, l.fixed,
                         position(l.linemodel.param_names,
                                  param_name(lt[i].name, params[p])))

\* C10: once build_linemodels has ended, it has fixed the out-of-range
\* lines: for every catalogue line whose redshifted wavelength lies outside
\* the wavelength limits, each of its parameters (the amplitude or the
\* doublet ratio standing for it, the vshift and the sigma) that is not in
\* the neverfix list is marked fixed, has value 0 and is not among the free
\* parameters of either tie model.
C10_OutOfRangeFixed ==
    lm.pc \in {"raised", "returned"} /\ lm.exc # "AssertionError"
        => fixing_done(lm) /\ out_of_range_fixed(lm, linetable)

-----------------------------------------------------------------------------
(* C11 *)

\* the positions (from 0) some parameter is tied to, under either tie model
tie_targets(table) ==
    {table.tiedtoline1[j] : j \in 1..Len(table.param_names)}
        \cup {table.tiedtoline2[j] : j \in 1..Len(table.param_names)}

targets_free(table, fix) ==
    \A k \in 1..Len(fix) : (k - 1) \in tie_targets(table) => ~fix[k]

\* C11: under both tie models, a parameter that another parameter is tied
\* to is never fixed by the out-of-range rule: once build_linemodels has
\* computed the fixed flags, every tie target is unfixed, also when its own
\* line lies outside the wavelength limits.
C11_TieTargetsFree ==
    lm.pc \in {"raised", "returned"} /\ fixing_done(lm)
        => targets_free(lm.linemodel, lm.fixed)

-----------------------------------------------------------------------------
(* C16 *)

\* continuum_specfit is past the velocity-dispersion step
past_vdisp == cs.mode = "specfit" /\ cs.pc \in {"final", "done"}

\* the search for the velocity dispersion as the step runs it: after the
\* search for A(V), on the templates reddened by the adopted A(V)
vdisp_search_at_AVbest ==
    /\ cs.AVsearch.searched
    /\ cs.AVbest = adopt(cs.AVsearch, cf.AV_nominal)
    /\ cs.vdsearch =
          fnnls_parallel(
              np_array([i \in 1..cf.nvdisp |->
                 SSP2data(keep_ages(cf.sspflux, cs.agekeep), data.zredrock,
                          <<cs.AVbest>>, <<cf.vdisp[i]>>, data.cameras)]),
              cs.flux, cs.ivar, cf.vdisp, FALSE)

\* what holds of the step when the search runs if and only if `wanted`
vdisp_step(wanted) ==
    /\ cs.vdsearch.searched <=> wanted
    /\ cs.vdsearch.searched => vdisp_search_at_AVbest
    /\ ~cs.vdsearch.searched =>
          cs.vdispbest = cf.vdisp_nominal /\ cs.vdispivar = Zero

-----------------------------------------------------------------------------
(* C17 *)

\* the raw chi-square of the final solve of continuum_specfit
specfit_raw_chi2 ==
    fnnls_parallel_fixed(
        SSP2data(keep_ages(cf.sspflux, cs.agekeep), data.zredrock,
                 <<cs.AVbest>>, <<cs.vdispbest>>, data.cameras),
        cs.flux, cs.ivar).chi2

\* the raw chi-square of the final solve of continuum_fastphot
fastphot_raw_chi2 ==
    fnnls_parallel_fixed(
        SSP2phot(keep_ages(cf.sspflux_dustnomvdisp[inodust(cf.AV)], cs.agekeep),
                 data.zredrock, <<cs.AVbest>>),
        cs.flux, cs.ivar).chi2

\* C17: the reduced chi-square that the final coefficient solve reports is
\* its raw chi-square divided by (the number of pixels, or of bands, with
\* inverse variance > 0) - 1, in continuum_specfit (CONTINUUM_RCHI2) as in
\* continuum_fastphot (the chi2min of the final solve).
C17_ReducedChi2 ==
    /\ (cs.mode = "specfit" /\ cs.pc = "done") =>
          cs.result.CONTINUUM_RCHI2 =
              np_divide(specfit_raw_chi2, count_positive(cs.ivar) - 1)
    /\ (cs.mode = "fastphot" /\ cs.pc = "pack" /\ cs.AVsearch.searched) =>
          cs.chi2min = np_divide(fastphot_raw_chi2, count_positive(cs.ivar) - 1)

-----------------------------------------------------------------------------
(* C18 *)

\* the templates not older than the universe at the redshift of the object
kept_templates ==
    {i \in 1..Len(sspinfo_age) : sspinfo_age[i] <= cosmo_age(data.zredrock)}

\* the number of kept templates up to template i: the place of template i
\* among the kept ones
kept_rank(i) == Cardinality({j \in kept_templates : j <= i})

\* every trial solve of a search has one coefficient per kept template
search_on_kept(search) ==
    search.searched =>
        \A ii \in 1..Len(search.coeff) :
            Len(search.coeff[ii]) = Cardinality(kept_templates)

\* entry i of the column is the coefficient of template i, or 0
coeff_by_template(column, coeff) ==
    /\ Len(column) = Len(sspinfo_age)
    /\ \A i \in 1..Len(column) :
          column[i] = IF i \in kept_templates THEN coeff[kept_rank(i)] ELSE Zero

\* the final solve of continuum_specfit on the kept templates alone
final_solve_on_kept(kept) ==
    cs.coeff =
        fnnls_parallel_fixed(
            SSP2data(np_array([p \in 1..Len(cf.sspflux) |->
                        np_array([k \in 1..Len(kept) |-> cf.sspflux[p][kept[k]]])]),
                     data.zredrock, <<cs.AVbest>>, <<cs.vdispbest>>, data.cameras),
            cs.flux, cs.ivar).coeff

\* the kept templates in increasing order
kept_sorted == SelectSeq([i \in 1..Len(sspinfo_age) |-> i],
                         LAMBDA i : i \in kept_templates)

\* C18: with the age constraint on, the templates older than the universe
\* at the redshift of the object are in none of the solves of
\* continuum_specfit (the trial solves of the A(V) and of the
\* velocity-dispersion search and the final solve have one coefficient per
\* kept template, and the final solve is the solve on the kept templates),
\* and CONTINUUM_COEFF has one entry per template: the coefficient of the
\* template if it is kept, 0 if it is excluded.
C18_AgeConstraint ==
    (cs.mode = "specfit" /\ cf.constrain_age) =>
        /\ search_on_kept(cs.AVsearch)
        /\ search_on_kept(cs.vdsearch)
        /\ cs.pc = "done" =>
              /\ final_solve_on_kept(kept_sorted)
              /\ coeff_by_template(cs.result.CONTINUUM_COEFF, cs.coeff)

\* a finished fit at a redshift where the old template is excluded, which
\* ran both searches and gave the young template a positive coefficient
C18_Witness ==
    /\ cs.mode = "specfit" /\ cf.constrain_age /\ cs.pc = "done"
    /\ kept_templates # 1..Len(sspinfo_age)
    /\ cs.AVsearch.searched /\ cs.vdsearch.searched
    /\ \E i \in kept_templates : FLt(Zero, cs.result.CONTINUUM_COEFF[i])

-----------------------------------------------------------------------------
(* C20: fully masked cameras                                               *)

\* pixel p of camera c as read carries data: it is not the first or last
\* pixel, its mask is 0 and its inverse variance is positive
good_pixel(c, p) ==
    /\ 1 < p /\ p < NPixCam
    /\ raw.mask0[c][p] = 0
    /\ FLt(Zero, raw.ivar0[c][p])

\* the cameras as read that have a pixel with data
cameras_with_data == {c \in 1..3 : \E p \in 1..NPixCam : good_pixel(c, p)}

\* the position among the cameras as read of the k-th camera with data
nth_with_data(k) ==
    CHOOSE c \in cameras_with_data :
        Cardinality({b \in cameras_with_data : b <= c}) = k

\* the unpacked arrays hold the cameras with data and no other, in order
only_cameras_with_data(d, n) ==
    /\ Len(d.cameras) = n /\ Len(d.wave) = n /\ Len(d.flux) = n
    /\ Len(d.ivar) = n /\ Len(d.mask) = n /\ Len(d.res) = n
    /\ Len(d.npixpercamera) = n
    /\ \A k \in 1..n :
          /\ d.cameras[k] = raw.cameras[nth_with_data(k)]
          /\ d.wave[k] = raw.wave0[nth_with_data(k)]
          /\ d.res[k] = raw.res0[nth_with_data(k)]
          /\ d.npixpercamera[k] = NPixCam
          /\ \A p \in 1..NPixCam :
                FLt(Zero, d.ivar[k][p]) <=> good_pixel(nth_with_data(k), p)

\* the pixels of the cameras as read that carry data outside the line mask
pooled_pixels ==
    {cp \in (1..3) \X (1..NPixCam) :
        good_pixel(cp[1], cp[2]) /\ ~raw.coadd_linemask[cp[2]]}

\* C20: a camera whose inverse variance is zero throughout, as read or after
\* the pixel mask is applied, is absent from cameras, wave, flux, ivar, mask,
\* res and npixpercamera; unpacking raises only when no camera has data; and
\* the pooled inverse variance of the continuum fit holds the pixels of the
\* remaining cameras only, its positive entries being their pixels with data
C20_MaskedCameraDropped ==
    cs.pc # "unpack" =>
        IF cameras_with_data = {}
        THEN cs.pc = "raised" /\ cs.raised = no_good_data
        ELSE /\ cs.raised # no_good_data
             /\ only_cameras_with_data(data, Cardinality(cameras_with_data))
             /\ cs.pc # "start" =>
                   /\ Len(cs.ivar) = NPixCam * Cardinality(cameras_with_data)
                   /\ count_positive(cs.ivar) = Cardinality(pooled_pixels)

\* a camera was dropped, another was kept, and the continuum fit has pooled
\* the pixels
C20_Witness ==
    /\ cs.pc = "AV"
    /\ Cardinality(cameras_with_data) = 2
    /\ 2 \notin cameras_with_data
    /\ FLt(Zero, FSum(raw.ivar0[2]))

-----------------------------------------------------------------------------
(* C12: the decision between the narrow and the broad fit                  *)

\* fit has decided between its two fits
decided == lf.pc \in {"output", "measure", "returned"}

\* both stages have run: the pixels of the broad windows were stacked
both_stages_ran == decided /\ Len(lf.broadlinepix) > 0

\* every broad Balmer amplitude of the broad fit is 0 after the cleanup
broad_amplitudes_zero ==
    \A i \in 1..Len(linetable) :
        linetable[i].isbroad /\ linetable[i].isbalmer
            => lf.broadfit.value[pindex(linetable[i].name \o "_amp")] = Zero

\* C12: when both stages have run the broad fit is the final fit unless all
\* broad Balmer amplitudes are 0 after the cleanup or the chi2 of the broad
\* fit on the pixels of the broad windows is not strictly smaller than that
\* of the narrow fit; in both cases the narrow fit is the final fit
C12_BroadSelection ==
    both_stages_ran =>
        IF broad_amplitudes_zero \/ ~FLt(lf.linechi2_broad, lf.linechi2_init)
        THEN ~lf.used_broad /\ lf.finalfit = lf.initfit
        ELSE lf.used_broad /\ lf.finalfit = lf.broadfit

\* the same with the narrow fit kept only where the chi2 of the broad fit is
\* strictly larger
C12_BroadUnlessWorse ==
    both_stages_ran =>
        IF broad_amplitudes_zero \/ FLt(lf.linechi2_init, lf.linechi2_broad)
        THEN ~lf.used_broad /\ lf.finalfit = lf.initfit
        ELSE lf.used_broad /\ lf.finalfit = lf.broadfit

\* the two chi2 are equal and a broad Balmer line is left
C12_EqualChi2 ==
    /\ both_stages_ran
    /\ lf.linechi2_broad = lf.linechi2_init
    /\ ~broad_amplitudes_zero

-----------------------------------------------------------------------------
(* C13: the cleanup after each stage                                       *)

\* a stage has just been fitted and cleaned: lf.fitted is the fit as the
\* optimizer returned it, lf.EMLineModel the model it started from
after_stage ==
    lf.pc = "pdb908" \/ (lf.pc = "output" /\ Len(lf.broadlinepix) > 0)

cleaned_fit == IF lf.pc = "pdb908" THEN lf.initfit ELSE lf.broadfit

has_free_amp(name) ==
    hasattr(name \o "_amp") /\ ~lf.fitted.fixed[pindex(name \o "_amp")]

\* the amplitude is at its seed, at or above its upper bound or not
\* positive, or the width is at the value it was initialised with
at_seed_or_bound(name) ==
    \/ lf.fitted.value[pindex(name \o "_amp")]
           = lf.EMLineModel.value[pindex(name \o "_amp")]
    \/ /\ lf.fitted.upper[pindex(name \o "_amp")] # <<>>
       /\ FLe(lf.fitted.upper[pindex(name \o "_amp")][1],
              lf.fitted.value[pindex(name \o "_amp")])
    \/ FLe(lf.fitted.value[pindex(name \o "_amp")], Zero)
    \/ lf.fitted.value[pindex(name \o "_sigma")]
           = lf.EMLineModel.value[pindex(name \o "_sigma")]

not_detected(name) == has_free_amp(name) /\ at_seed_or_bound(name)

\* the width of a line once the lines that are not detected are at 0
width_of_detected(name) ==
    IF not_detected(name) THEN Zero ELSE lf.fitted.value[pindex(name \o "_sigma")]

\* a broad Balmer line not wider than its narrow counterpart
not_wider(line) ==
    /\ line.isbroad /\ line.isbalmer /\ has_free_amp(line.name)
    /\ FLe(width_of_detected(line.name), width_of_detected(narrow_of(line).name))

\* C13: after each stage amp, sigma and vshift of a line whose amplitude is
\* not fixed are 0 if the amplitude is at its seed, at or above its upper
\* bound or not positive, or the width is at the seed it was initialised
\* with; those of a broad Balmer line not wider than its narrow counterpart
\* are 0 as well; every other parameter is as the optimizer left it
C13_Cleanup ==
    after_stage =>
        \A k \in 1..Len(pnames) :
            cleaned_fit.value[k] =
                IF /\ pnames[k] = line_of(linetable, k).name \o "_" \o param_of(k)
                   /\ \/ not_detected(line_of(linetable, k).name)
                      \/ not_wider(line_of(linetable, k))
                THEN Zero
                ELSE lf.fitted.value[k]

-----------------------------------------------------------------------------
(* C14: when the broad stage is entered                                    *)

\* the pixels of the windows of halpha_broad, hbeta_broad and hgamma_broad
\* on all cameras
broad_window_pixels(d) ==
    UNION {UNION {{<<c, i, j>> : j \in 1..Len(d.linepix[c][i])} :
                    i \in {n \in 1..Len(d.linename[c]) :
                             d.linename[c][n] \in
                                 {"halpha_broad", "hbeta_broad", "hgamma_broad"}}} :
             c \in 1..Len(d.cameras)}

\* the fit is past the test of the broad stage
past_broad_test == decided \/ (lf.pc = "raised" /\ lf.exc = "ValueError")

\* the broad stage was entered: its pixels were stacked, or stacking raised
entered_broad_stage == past_broad_test /\ ~(decided /\ Len(lf.broadlinepix) = 0)

\* the narrow fit is the final fit and both chi2 of the windows are 0
narrow_returned ==
    /\ ~lf.used_broad /\ lf.finalfit = lf.initfit
    /\ lf.linechi2_init = Zero /\ lf.linechi2_broad = Zero
    /\ lf.pc = "returned" =>
          lf.result.LINERCHI2_BROAD = Zero /\ lf.result.DELTA_LINERCHI2 = Zero

-----------------------------------------------------------------------------
(* C15: the broad Balmer lines in the narrow stage                         *)

\* the parameters of the broad Balmer lines
broad_balmer_parameters ==
    {k \in 1..Len(pnames) :
        line_of(linetable, k).isbroad /\ line_of(linetable, k).isbalmer}

\* amp, vshift and sigma of every broad Balmer line are 0 and fixed
broad_balmer_off(model) ==
    \A k \in broad_balmer_parameters : model.value[k] = Zero /\ model.fixed[k]

\* the rows of the broad Balmer lines report amp, vshift and sigma as 0
broad_balmer_reported_zero(rows) ==
    \A i \in 1..Len(linetable) :
        linetable[i].isbroad /\ linetable[i].isbalmer =>
            rows[i].AMP = Zero /\ rows[i].VSHIFT = Zero /\ rows[i].SIGMA = Zero

\* C15: throughout the narrow stage, and in a final result taken from the
\* narrow fit, amp, vshift and sigma of every broad Balmer line, in range or
\* not, are 0 and fixed, and the output reports them as 0
C15_BroadBalmerOff ==
    /\ (\/ lf.pc \in {"least_squares", "fitter", "pdb908"}
        \/ (lf.pc = "raised" /\ lf.exc = "AttributeError"))
           => broad_balmer_off(lf.EMLineModel)
    /\ lf.pc = "pdb908" => broad_balmer_off(lf.initfit)
    /\ (decided /\ ~lf.used_broad) => broad_balmer_off(lf.finalfit)
    /\ (lf.pc \in {"measure", "returned"} /\ ~lf.used_broad)
           => broad_balmer_reported_zero(lf.result.line)

\* a result returned from the narrow fit after the broad fit was tried
C15_Witness ==
    /\ lf.pc = "returned" /\ ~lf.used_broad /\ Len(lf.broadlinepix) > 0
    /\ \E i \in 1..Len(linetable) :
          linetable[i].isbroad /\ linetable[i].isbalmer /\ lf.finalfit.inrange[i]

-----------------------------------------------------------------------------
(* C19: the lines that the measurement skips                               *)

\* the window of a line, two widths on both sides of its centre
line_window_at(l, zwave, sa) == window(l.emlinewave, zwave - 2 * sa, zwave + 2 * sa)

line_window_with(l, line, row, zwave) ==
    line_window_at(l, zwave, linesigma_ang(linesigma(line, row.SIGMA), zwave))

\* the window of a line whose fitted parameters are those of row
line_window(l, line, row) ==
    line_window_with(l, line, row, linezwave(line, l.data.zredrock, row.VSHIFT))

\* the pixels of the window whose original inverse variance is 0
zero_ivar_pixels(oivar, indx) == {i \in 1..Len(indx) : oivar[indx[i]] = Zero}

\* strictly more than 30% of the pixels of the window have inverse variance 0
over_30_percent_zero(oivar, indx) ==
    10 * Cardinality(zero_ivar_pixels(oivar, indx)) > 3 * Len(indx)

\* the pixels the line is measured on once it is not skipped
pixels_if_measured(l, line, row, indx) ==
    measured_pixels(l.emlinewave, l.oemlineivar,
                    linezwave(line, l.data.zredrock, row.VSHIFT),
                    positive(indx, l.emlineivar))

\* a skipped line has every output at zero or default; a line that is not
\* skipped keeps its shift and width and counts its pixels
skipped_or_measured(l, line, fitted, reported, indx) ==
    IF over_30_percent_zero(l.oemlineivar, indx)
    THEN reported = init_row
    ELSE /\ reported.VSHIFT = fitted.VSHIFT
         /\ reported.SIGMA = fitted.SIGMA
         /\ reported.NPIX = Len(pixels_if_measured(l, line, fitted, indx))

\* C19: in the measurement loop a line is skipped, all of its outputs left
\* at or reset to zero or default, if and only if strictly more than 30% of
\* the pixels of its window have inverse variance 0 in the original array
C19_SkipMaskedLine ==
    lf.pc = "returned" =>
        \A i \in 1..Len(linetable) :
            lf.EMLineModel.inrange[i] =>
                skipped_or_measured(lf, linetable[i],
                    filled_row(lf.finalfit, linetable[i].name),
                    lf.result.line[i],
                    line_window(lf, linetable[i],
                                filled_row(lf.finalfit, linetable[i].name)))

\* a fitted line is skipped and reset, and another line is measured
C19_Witness ==
    /\ lf.pc = "returned"
    /\ \E i \in 1..Len(linetable) :
          /\ lf.EMLineModel.inrange[i]
          /\ filled_row(lf.finalfit, linetable[i].name).SIGMA # Zero
          /\ over_30_percent_zero(lf.oemlineivar,
                line_window(lf, linetable[i],
                            filled_row(lf.finalfit, linetable[i].name)))
          /\ lf.result.line[i] = init_row
    /\ \E i \in 1..Len(linetable) :
          /\ lf.EMLineModel.inrange[i]
          /\ ~over_30_percent_zero(lf.oemlineivar,
                line_window(lf, linetable[i],
                            filled_row(lf.finalfit, linetable[i].name)))
          /\ lf.result.line[i].NPIX > 0

-----------------------------------------------------------------------------
(* C2: the tied parameters                                                 *)

\* every tied parameter that is not fixed is its factor times its target
ties_hold(fit) ==
    \A k \in 1..Len(pnames) :
        (param_tied(k) # <<>> /\ ~fit.fixed[k]) =>
            fit.value[k] = FMul(float(param_tied(k)[1]),
                                fit.value[pindex(param_tied(k)[2])])

\* C2: in the solution of the optimizer, after the cleanup and in the final
\* fit every tied parameter p with factor f and target t has
\* p.value = f * t.value; no stage leaves a tied value stale
C2_TiesHold ==
    /\ after_stage => ties_hold(lf.fitted) /\ ties_hold(cleaned_fit)
    /\ decided => ties_hold(lf.finalfit)

-----------------------------------------------------------------------------
(* C7: an object whose fit raises                                          *)

\* the run of the script is over
batch_over == batch.pc \in {"done", "raised"}

\* C7: when the fit of one object raises, with one core or with the pool,
\* the run still fits every other object selected and keeps its result
C7_BatchGoesOn ==
    batch_over =>
        \A i \in 1..Len(batch.fits) :
            batch.fits[i] = "returns" =>
                /\ Len(batch.written) >= i
                /\ batch.written[i] = fitted_row(i)

-----------------------------------------------------------------------------
(* C4: the chi2 with no degree of freedom                                  *)

\* the pixels with a positive inverse variance
pixels_with_ivar == {p \in 1..Len(lf.emlineivar) : FLt(Zero, lf.emlineivar[p])}

\* C4: the chi2 of EMLineFit.chi2, with dof = count(ivar > 0) - nfree, and
\* the chi2 of a line, with dof = npix - 3, are chi2_default when dof <= 0
C4_Chi2Default ==
    /\ (lf.pc \in {"line", "returned"}
          /\ Cardinality(pixels_with_ivar) - lf.nfree <= 0)
           => lf.rchi2 = chi2_default
    /\ (lf.pc = "returned" /\ Len(lf.lineindx) - 3 <= 0)
           => lf.row.CHI2 = chi2_default

\* both chi2 were asked for with no degree of freedom, the sum of the
\* weighted residuals not being 0
C4_Witness ==
    /\ lf.pc = "returned"
    /\ Cardinality(pixels_with_ivar) - lf.nfree < 0
    /\ Len(lf.lineindx) = 3
    /\ lf.row.AMP # Zero
    /\ \E p \in pixels_with_ivar : lf.emlineflux[p] # lf.emlinemodel[p]

-----------------------------------------------------------------------------
(* C3: the amplitudes of the ratio doublets                                *)

\* the three lines whose amplitude is a doublet ratio times that of a partner
ratio_doublets == {"oii_3726", "sii_6731", "mgii_2796"}

\* the column of the table that holds the ratio of a doublet
reported_ratio(result, linename) ==
    IF linename = "oii_3726" THEN result.OII_DOUBLET_RATIO
    ELSE IF linename = "sii_6731" THEN result.SII_DOUBLET_RATIO
    ELSE result.MGII_DOUBLET_RATIO

\* the row of a line in the table
reported_line(result, linename) ==
    result.line[CHOOSE i \in 1..Len(linetable) : linetable[i].name = linename]

\* the amplitude of the dependent line is the ratio times that of the partner
doublet_holds(result, linename) ==
    reported_line(result, linename).AMP =
        FMul(reported_ratio(result, linename),
             reported_line(result, partner_of(linename)).AMP)

\* C3: in the table fit returns, after the measurement of the lines, the
\* amplitude of the dependent line of each of the three ratio doublets is
\* the reported ratio times the reported amplitude of its partner
C3_DoubletAmplitudes ==
    lf.pc = "returned" =>
        \A linename \in ratio_doublets : doublet_holds(lf.result, linename)

\* the same in the table as the output loop fills it, before the measurement
C3_BeforeMeasurement ==
    lf.pc = "measure" =>
        \A linename \in ratio_doublets : doublet_holds(lf.result, linename)

-----------------------------------------------------------------------------
(* C8: the decomposition run twice                                         *)

\* the second decomposition is over
decomposed_twice == raw.run = 2 /\ decomposed

\* the console took the second line fit where it took the first
same_way == lf.pc = raw.lines.pc /\ lf.exc = raw.lines.exc

-----------------------------------------------------------------------------
(* C22: the line fit and the debugger                                      *)

\* the call waits at the prompt of the debugger: pdb.set_trace() in fit, or
\* in build_linemodels called by fit
at_console ==
    \/ lf.pc \in {"pdb774", "pdb795", "pdb908"}
    \/ lf.pc = "build_linemodels" /\ lm.pc = "pdb"

\* C22: once started EMLineFit.fit and the functions it calls run to the
\* end or to an error: no step waits for the console
C22_NeverSuspends == ~at_console

-----------------------------------------------------------------------------
(* C28: the broad stage when it is forced                                  *)

\* the narrow fit is done and the console has let the call go on
past_narrow_fit == lf.initfit # <<>> /\ lf.pc # "pdb908"

\* C28: with broadlinefit=True the broad stage and the decision between the
\* two fits complete for every input, also when no window of halpha_broad,
\* hbeta_broad or hgamma_broad has a pixel
C28_ForcedBroadStage ==
    (lf.broadlinefit /\ past_narrow_fit) => decided

-----------------------------------------------------------------------------
(* C29: the doublets with a fixed ratio in the output                      *)

\* the line the amplitude of a doublet is tied to in build_linemodels, and
\* the line whose amplitude is tied to it
tied_doublets ==
    << <<"oiii_5007", "oiii_4959">>, <<"nii_6584", "nii_6548">>,
       <<"oii_7330", "oii_7320">> >>

\* the dependent line is zero when the anchor is zero with pixels
follows_anchor(rows, anchor, dependent) ==
    (rows[line_index(anchor)].AMP = Zero /\ rows[line_index(anchor)].NPIX > 0)
        => /\ rows[line_index(dependent)].AMP = Zero
           /\ rows[line_index(dependent)].FLUX = Zero
           /\ rows[line_index(dependent)].EW = Zero

\* the row of the anchor is the one the measurement loop left
anchor_kept(rows, before, anchor) ==
    rows[line_index(anchor)] = before[line_index(anchor)]

\* C29: in the table fit returns, for each doublet with a fixed ratio, the
\* dependent line has amplitude, flux and EW 0 whenever the line it is tied
\* to has amplitude 0 with NPIX > 0, and the line it is tied to is never
\* zeroed because the dependent line is 0
C29_ZeroingFollowsTie ==
    lf.pc = "returned" =>
        \A d \in 1..Len(tied_doublets) :
            /\ follows_anchor(lf.result.line, tied_doublets[d][1], tied_doublets[d][2])
            /\ anchor_kept(lf.result.line, measured_rows(lf), tied_doublets[d][1])

\* the first half alone, and the second half alone
C29_DependentZeroed ==
    lf.pc = "returned" =>
        \A d \in 1..Len(tied_doublets) :
            follows_anchor(lf.result.line, tied_doublets[d][1], tied_doublets[d][2])

C29_AnchorKept ==
    lf.pc = "returned" =>
        \A d \in 1..Len(tied_doublets) :
            anchor_kept(lf.result.line, measured_rows(lf), tied_doublets[d][1])


-----------------------------------------------------------------------------
(* C27 *)

\* continuum_specfit has filled the CONTINUUM_SNR columns of an object that
\* unpack_one_spectrum handed over
snr_reported ==
    cs.pc = "AV" \/ (cs.pc = "raised" /\ cs.raised = "ValueError")

\* the place of the camera in the cameras as read
place_as_read(cam) == CHOOSE c \in 1..3 : raw.cameras[c] = cam

\* the median S/N of the camera, as unpack_one_spectrum computes it
median_snr_at_unpacking(cam) ==
    camera_snr(raw.flux0[place_as_read(cam)],
               masked_ivar(raw.ivar0[place_as_read(cam)],
                           raw.mask0[place_as_read(cam)]))

\* C27: for every camera that survives the drop of the fully masked cameras,
\* the S/N that continuum_specfit reports as CONTINUUM_SNR_<camera> is the
\* median S/N of that same camera computed at unpacking time, also when a
\* camera earlier in the order was dropped.
C27_SnrOfSameCamera ==
    snr_reported =>
        \A k \in 1..Len(data.cameras) :
            cs.SNR[data.cameras[k]] = median_snr_at_unpacking(data.cameras[k])


-----------------------------------------------------------------------------
(* C30 *)

\* continuum_fastphot has divided the chi-square by its degrees of freedom
fastphot_divided ==
    cs.mode = "fastphot" /\ cs.AVsearch.searched /\ cs.pc \in {"pack", "done"}

np_isfinite(x) == x # NaN /\ x # Inf

\* C30: whenever continuum_fastphot divides the chi-square by its degrees of
\* freedom (the number of fitted bands with inverse variance > 0, minus 1),
\* the divisor is at least 1, and the reported CONTINUUM_RCHI2 is finite for
\* every input with at least one fitted band of positive inverse variance.
C30_DofPositive ==
    /\ fastphot_divided => count_positive(cs.ivar) - 1 >= 1
    /\ (cs.mode = "fastphot" /\ cs.pc = "done" /\ count_positive(cs.ivar) >= 1)
          => np_isfinite(cs.result.CONTINUUM_RCHI2)

\* the first half alone: the divisor
C30_Divisor == fastphot_divided => count_positive(cs.ivar) - 1 >= 1

\* the second half alone: the reported value
C30_Finite ==
    (cs.mode = "fastphot" /\ cs.pc = "done" /\ count_positive(cs.ivar) >= 1)
        => np_isfinite(cs.result.CONTINUUM_RCHI2)


-----------------------------------------------------------------------------
(* The checks of the inputs (continuum.py): continuum_specfit on spectra    *)
(* with negative inverse variances, parse_photometry, SSP2data on template  *)
(* stacks of one to four dimensions, and smooth_continuum with a line mask. *)
(* raw holds the call and its arguments, cs the position of the call.       *)

\* an object whose inverse variances may be negative; the S/N of a camera
\* with a negative inverse variance is np.sqrt of a negative number, nan
SignedObject(flux, ivar, linemask) ==
    [SpecObject(Zero, flux, [c \in 1..3 |-> Zero], linemask) EXCEPT
        !.ivar = np_array([c \in 1..3 |-> <<ivar[c]>>]),
        !.snr = np_array([c \in 1..3 |->
                    IF FLt(ivar[c], Zero) THEN NaN
                    ELSE unpack_snr(F(flux[c]), ivar[c])])]

SignedObjects ==
    {SignedObject(f, iv, mk) :
        f \in {<<1, 1, 1>>, <<MaxFlux, 1, MaxFlux>>},
        iv \in [1..3 -> {F(-1), F(0), F(1)}],
        mk \in [1..3 -> BOOLEAN]}

\* the maggies and ivarmaggies of the two bands of a call of parse_photometry;
\* <<>> stands for ivarmaggies=None
Maggies == [1..2 -> {F(-99), F(0), F(1)}]

IvarMaggies == [1..2 -> {F(-1), F(0), F(1)}] \cup {<<>>}

\* an array: its shape and its values in C order
ndarray(shape, flat) == [shape |-> shape, flat |-> flat]

\* the template stacks handed to SSP2data: 1-D to 4-D, of three pixels
SSPStacks ==
    {ndarray(shape, np_array([i \in 1..12 |-> F(IF i % 3 = 0 THEN hi ELSE 1)])) :
        shape \in {<<12>>, <<3, 4>>, <<3, 2, 2>>, <<3, 2, 2, 1>>},
        hi \in {1, MaxFlux}}

\* sspflux.reshape(npix, nmodel) as rows of nmodel values
reshape(a, npix, nmodel) ==
    np_array([p \in 1..npix |->
        np_array([j \in 1..nmodel |-> a.flat[(p - 1) * nmodel + j]])])

\* largest number of pixels of a spectrum handed to smooth_continuum
MaxSmoothPix == 3

\* the line masks handed to smooth_continuum; <<>> stands for linemask=None
SmoothLinemasks ==
    UNION {[1..n -> BOOLEAN] : n \in 1..MaxSmoothPix + 1} \cup {<<>>}

check_call(op, args) == [op |-> op, args |-> args]

InitChecks ==
    /\ ctor = [AV |-> AV_small, vdisp |-> vdisp_small]
    /\ grids = [status |-> "unused"]
    /\ cf = ContinuumFit(FALSE)
    /\ lm = None /\ lf = None /\ batch = None
    /\ \/ /\ data \in SignedObjects
          /\ cs = new_fit("specfit")
          /\ raw = check_call("continuum_specfit", <<>>)
       \/ /\ data = None
          /\ cs = new_fit("check")
          /\ raw \in {check_call("parse_photometry",
                                 [maggies |-> mg, ivarmaggies |-> iv]) :
                         mg \in Maggies, iv \in IvarMaggies}
                     \cup {check_call("SSP2data",
                                      [sspflux |-> s, redshift |-> z]) :
                              s \in SSPStacks, z \in {F(0), F(1)}}
                     \cup {check_call("smooth_continuum",
                                      [npix |-> n, linemask |-> mk]) :
                              n \in 2..MaxSmoothPix, mk \in SmoothLinemasks}

\* parse_photometry: ivarmaggies=None becomes zeros; ValueError when an
\* ivarmaggies is negative or a maggies is -99; otherwise the columns
\* nanomaggies and nanomaggies_ivar of the table (nanomaggies=True)
parse_photometry ==
    /\ cs.mode = "check" /\ cs.pc = "start" /\ raw.op = "parse_photometry"
    /\ LET maggies == raw.args.maggies
           ivarmaggies == IF raw.args.ivarmaggies = <<>>
                          THEN np_array([b \in 1..Len(maggies) |-> Zero])
                          ELSE raw.args.ivarmaggies
       IN  IF (\E b \in 1..Len(ivarmaggies) : FLt(ivarmaggies[b], Zero))
              \/ (\E b \in 1..Len(maggies) : maggies[b] = F(-99))
           THEN cs' = [cs EXCEPT !.pc = "raised", !.raised = "ValueError"]
           ELSE cs' = [cs EXCEPT !.pc = "done",
                          !.result = [nanomaggies |-> maggies,
                                      nanomaggies_ivar |-> ivarmaggies]]
    /\ UNCHANGED <<ctor, grids, cf, data, lm, lf, batch, raw>>

\* SSP2data: a 2-D stack is used as it is, a 3-D stack is reshaped to
\* [npix, nage*nprop], any other number of dimensions raises ValueError
SSP2data_ndim ==
    /\ cs.mode = "check" /\ cs.pc = "start" /\ raw.op = "SSP2data"
    /\ LET sspflux == raw.args.sspflux
           ndim == Len(sspflux.shape)
       IN  IF ndim = 2
           THEN cs' = [cs EXCEPT !.pc = "done", !.result =
                         SSP2data(reshape(sspflux, sspflux.shape[1], sspflux.shape[2]),
                                  raw.args.redshift, <<>>, <<>>, all_cameras)]
           ELSE IF ndim = 3
           THEN cs' = [cs EXCEPT !.pc = "done", !.result =
                         SSP2data(reshape(sspflux, sspflux.shape[1],
                                          sspflux.shape[2] * sspflux.shape[3]),
                                  raw.args.redshift, <<>>, <<>>, all_cameras)]
           ELSE cs' = [cs EXCEPT !.pc = "raised", !.raised = "ValueError"]
    /\ UNCHANGED <<ctor, grids, cf, data, lm, lf, batch, raw>>

\* what smooth_continuum does with the line mask: ValueError when its length
\* is not npix, otherwise the windows (of one pixel here) with a masked pixel
\* are skipped
smooth_with(linemask) ==
    IF Len(linemask) # raw.args.npix
    THEN [cs EXCEPT !.pc = "raised", !.raised = "ValueError"]
    ELSE [cs EXCEPT !.pc = "done", !.result = [smooth_mask |-> linemask]]

\* smooth_continuum: with linemask=None a mask of npix pixels is built from
\* the strong lines in range (any pixels, the catalogue is read at run time)
smooth_continuum ==
    /\ cs.mode = "check" /\ cs.pc = "start" /\ raw.op = "smooth_continuum"
    /\ IF raw.args.linemask = <<>>
       THEN \E built \in [1..raw.args.npix -> BOOLEAN] : cs' = smooth_with(built)
       ELSE cs' = smooth_with(raw.args.linemask)
    /\ UNCHANGED <<ctor, grids, cf, data, lm, lf, batch, raw>>

NextChecks ==
    \/ continuum_specfit_prepare
    \/ specfit_fit_AV
    \/ specfit_fit_vdisp
    \/ specfit_final
    \/ parse_photometry
    \/ SSP2data_ndim
    \/ smooth_continuum

SpecChecks == InitChecks /\ [][NextChecks]_vars

-----------------------------------------------------------------------------
(* C21 *)

\* the call has gone past its check of the input
checked(op) == raw.op = op /\ cs.pc # "start"

\* the call raised ValueError and produced no result
raised_at_once == cs.pc = "raised" /\ cs.raised = "ValueError"

\* some inverse variance of the spectra is negative
negative_ivar ==
    \E c \in 1..Len(data.ivar) : \E p \in 1..Len(data.ivar[c]) :
        FLt(data.ivar[c][p], Zero)

\* some ivarmaggies is negative
negative_ivarmaggies ==
    \E b \in 1..Len(raw.args.ivarmaggies) : FLt(raw.args.ivarmaggies[b], Zero)

\* a negative inverse variance makes continuum_specfit raise
C21_SpecfitRaises ==
    (checked("continuum_specfit") /\ negative_ivar) => raised_at_once

\* a negative inverse variance makes parse_photometry raise
C21_PhotometryRaises ==
    (checked("parse_photometry") /\ negative_ivarmaggies) => raised_at_once

\* a stack that is neither 2-D nor 3-D makes SSP2data raise
C21_StackRaises ==
    (checked("SSP2data") /\ Len(raw.args.sspflux.shape) \notin {2, 3})
        => raised_at_once

\* a line mask of another length than the spectrum makes smooth_continuum
\* raise
C21_MaskRaises ==
    (checked("smooth_continuum") /\ raw.args.linemask # <<>>
        /\ Len(raw.args.linemask) # raw.args.npix) => raised_at_once

\* C21: each violation of an input invariant makes the operation raise at
\* once, before any fit result is produced and without repairing the input:
\* a negative inverse variance in continuum_specfit or parse_photometry, a
\* template stack that is neither 2-D nor 3-D in SSP2data, and a line mask
\* whose length differs from the number of pixels in smooth_continuum.
C21_ViolationsRaise ==
    /\ C21_SpecfitRaises
    /\ C21_PhotometryRaises
    /\ C21_StackRaises
    /\ C21_MaskRaises


-----------------------------------------------------------------------------
(* emline_spectrum (emlines.py): the line model on the oversampled grid,    *)
(* rebinned onto the pixels of each camera and multiplied by the camera's   *)
(* resolution matrix. Two cameras of two pixels, every pixel covering two   *)
(* samples of the grid; the two lines form a doublet (ndoublet = 1) and     *)
(* are narrower than a sample, so that a line centred on a sample adds its  *)
(* amplitude to that sample only; <<>> stands for emlineR=None. lf holds    *)
(* the call.                                                                *)

\* samples of EMLine.log10wave per pixel, pixels per camera, cameras
SamplesPerPixel == 2

PixPerCamera == 2

NCameras == 2

NSamples == NCameras * PixPerCamera * SamplesPerPixel

\* EMLine.emlineR of a camera spreads the share w of a pixel onto the next
\* pixel; the identity is never among the resolution matrices
resolution(w) ==
    np_array([p \in 1..PixPerCamera |->
        np_array([q \in 1..PixPerCamera |->
            IF p = q THEN FSub(F(1), w)
            ELSE IF q = (p % PixPerCamera) + 1 THEN w ELSE Zero])])

ResolutionMatrices == {resolution(FR(1, 4)), resolution(FR(1, 2))}

\* lineamps = np.hstack((doublet_amps, _lineamps[ndoublet:])) with
\* doublet_amps = _lineamps[ndoublet:2*ndoublet] * doublet_ratios
doublet_lineamps(ratio, amp) == <<FMul(amp, ratio), amp>>

\* log10model: lineamp * exp(0) on the sample the line is centred on, for the
\* lines in range with lineamp > 0
log10model(lineamps, centres) ==
    np_array([s \in 1..NSamples |->
        FSum(np_array([l \in 1..Len(lineamps) |->
            IF centres[l] = s /\ FLt(Zero, lineamps[l]) THEN lineamps[l] ELSE Zero]))])

\* trapz_rebin onto the pixels ipix..jpix-1 of camera ii (from 0): the mean
\* of the samples of each pixel
trapz_rebin(model, ii) ==
    np_array([p \in 1..PixPerCamera |->
        FDiv(FSum(np_array([k \in 1..SamplesPerPixel |->
                model[((ii * PixPerCamera) + p - 1) * SamplesPerPixel + k]])),
             F(SamplesPerPixel))])

\* R.dot(v)
R_dot(res, v) ==
    np_array([p \in 1..Len(res) |->
        FSum(np_array([q \in 1..Len(v) |-> FMul(res[p][q], v[q])]))])

\* the model of camera ii that emline_spectrum appends: the product with the
\* resolution matrix is bound to another name (_emlinemomdel), and the
\* rebinned model is appended
camera_emlinemodel(model, emlineR, ii) == trapz_rebin(model, ii)

\* np.hstack(emlinemodel) over the cameras
emline_model(model, emlineR) ==
    hstack(np_array([c \in 1..NCameras |-> camera_emlinemodel(model, emlineR, c - 1)]))

new_spectrum(ratio, amp, centres, emlineR) ==
    [pc |-> "emline_spectrum", ratio |-> ratio, amp |-> amp, centres |-> centres,
     emlineR |-> emlineR, log10model |-> <<>>, emlinemodel |-> <<>>]

InitSpectrum ==
    /\ ctor = None /\ grids = None /\ cf = None /\ data = None /\ cs = None
    /\ lm = None /\ batch = None /\ raw = None
    /\ lf \in {new_spectrum(ratio, amp, centres, res) :
                 ratio \in {F(0), F(1), F(3)}, amp \in {F(0), F(1), F(2)},
                 centres \in {<<1, 3>>, <<2, 6>>, <<4, 5>>, <<7, NSamples>>},
                 res \in {<<>>} \cup {np_array(f) :
                                        f \in [1..NCameras -> ResolutionMatrices]}}

emline_spectrum ==
    /\ lf.pc = "emline_spectrum"
    /\ lf' = [lf EXCEPT !.pc = "returned",
                !.log10model =
                    log10model(doublet_lineamps(lf.ratio, lf.amp), lf.centres),
                !.emlinemodel =
                    emline_model(
                        log10model(doublet_lineamps(lf.ratio, lf.amp), lf.centres),
                        lf.emlineR)]
    /\ UNCHANGED <<ctor, grids, cf, data, cs, lm, batch, raw>>

NextSpectrum == emline_spectrum

SpecSpectrum == InitSpectrum /\ [][NextSpectrum]_vars

-----------------------------------------------------------------------------
(* C24 *)

\* the pixels of camera ii (from 0) of the returned model
returned_camera(ii) ==
    np_array([p \in 1..PixPerCamera |-> lf.emlinemodel[ii * PixPerCamera + p]])

\* C24: when a resolution operator is supplied, the model of every camera
\* that emline_spectrum returns is the rebinned model multiplied by that
\* camera's resolution operator, not the unconvolved rebinned model.
C24_ResolutionApplied ==
    (lf.pc = "returned" /\ lf.emlineR # <<>>) =>
        \A c \in 1..NCameras :
            returned_camera(c - 1)
                = R_dot(lf.emlineR[c], trapz_rebin(lf.log10model, c - 1))


-----------------------------------------------------------------------------
(* estimate_linesigmas (continuum.py): the width of the forbidden, Balmer   *)
(* and UV lines from a Gaussian fitted to the stacked lines of each class.  *)
(* curve_fit is an optimizer: get_linesigma returns any width and S/N of    *)
(* FittedWidths. lf holds the call.                                         *)

linesigma_snr_min == FR(3, 2)

init_linesigma_narrow == 200

init_linesigma_balmer == 1000

init_linesigma_uv == 2000

\* the smallest width kept for the forbidden and Balmer lines, and for the
\* UV lines
floor_narrow == 50

floor_uv == 300

line_classes == <<"narrow", "balmer", "uv">>

init_linesigma(class) ==
    IF class = "narrow" THEN init_linesigma_narrow
    ELSE IF class = "balmer" THEN init_linesigma_balmer ELSE init_linesigma_uv

linesigma_floor(class) == IF class = "uv" THEN floor_uv ELSE floor_narrow

Width(sigma, snr) == [sigma |-> sigma, snr |-> snr]

\* what get_linesigma returns for a class: 0.0, 0.0 when no line is in range
\* or the fit fails, otherwise a positive width with S/N >= 0
FittedWidths(class) ==
    {Width(F(0), F(0))}
    \cup {Width(F(sigma), snr) :
            sigma \in {40, 50, 100, 300, init_linesigma(class),
                       2 * init_linesigma(class), 5 * init_linesigma(class),
                       5 * init_linesigma(class) + 100},
            snr \in {F(0), F(1), linesigma_snr_min, F(5)}}

\* the test before the refit: init < linesigma < 5*init and S/N > minimum
wants_refit(w, init) ==
    /\ FLt(Zero, w.snr)
    /\ FLt(F(init), w.sigma) /\ FLt(w.sigma, F(5 * init))
    /\ FLt(linesigma_snr_min, w.snr)

\* if (linesigma < 50) or (linesigma > 5*init) or (snr < snr_min): the
\* default width with S/N 0
rejected_from_anchor(w, lowest, init) ==
    \/ FLt(w.sigma, F(init))
    \/ FLt(F(5 * init), w.sigma)
    \/ FLe(w.snr, linesigma_snr_min)

rejected(w, lowest, init) ==
    \/ FLt(w.sigma, F(lowest))
    \/ FLt(F(5 * init), w.sigma)
    \/ FLt(w.snr, linesigma_snr_min)

adopted(w, lowest, init) ==
    IF rejected(w, lowest, init) THEN Width(F(init), F(0)) ELSE w

\* build_linemask calls estimate_linesigmas with the default refit=True
new_linesigmas(refit) ==
    [pc |-> "narrow", refit |-> refit,
     fitted |-> [c \in {"narrow", "balmer", "uv"} |-> Width(F(0), F(0))],
     linesigma |-> [c \in {"narrow", "balmer", "uv"} |-> Width(F(0), F(0))]]

InitSigmas ==
    /\ ctor = None /\ grids = None /\ cf = None /\ data = None /\ cs = None
    /\ lm = None /\ batch = None /\ raw = None
    /\ lf = new_linesigmas(TRUE)

\* the class is estimated from the last fit, and the next class is up
estimated(class, w, next) ==
    [lf EXCEPT !.pc = next, !.fitted[class] = w,
               !.linesigma[class] =
                   adopted(w, linesigma_floor(class), init_linesigma(class))]

\* get_linesigma for the class, the refit from the width found, and the
\* fall back to the default width
estimate_class(class, next) ==
    /\ lf.pc = class
    /\ \E first \in FittedWidths(class) :
          IF lf.refit /\ wants_refit(first, init_linesigma(class))
          THEN \E second \in FittedWidths(class) :
                  lf' = estimated(class, second, next)
          ELSE lf' = estimated(class, first, next)
    /\ UNCHANGED <<ctor, grids, cf, data, cs, lm, batch, raw>>

estimate_narrow == estimate_class("narrow", "balmer")

estimate_balmer == estimate_class("balmer", "uv")

estimate_uv == estimate_class("uv", "returned")

NextSigmas ==
    \/ estimate_narrow
    \/ estimate_balmer
    \/ estimate_uv

SpecSigmas == InitSigmas /\ [][NextSigmas]_vars

-----------------------------------------------------------------------------
(* C25 *)

\* the class has been estimated
estimated_class(class) ==
    \/ lf.pc = "returned"
    \/ class = "narrow" /\ lf.pc \in {"balmer", "uv"}
    \/ class = "balmer" /\ lf.pc = "uv"

default_width(class) == Width(F(init_linesigma(class)), F(0))

\* the fitted width is returned if and only if `kept`, the default otherwise
returns_fit_iff(class, kept) ==
    lf.linesigma[class] = IF kept THEN lf.fitted[class] ELSE default_width(class)

\* C25 (as the code has it): for each class estimate_linesigmas returns the
\* fitted width and its S/N if the S/N is at least 1.5 and the width lies
\* within [50, 5 x anchor] km/s ([300, 5 x anchor] for the UV lines), where
\* anchor is the default width of the class (200, 1000, 2000 km/s); in every
\* other case it returns the default width with S/N 0.
C25_WidthAccepted ==
    \A c \in {"narrow", "balmer", "uv"} :
        estimated_class(c) =>
            returns_fit_iff(c,
                /\ FLe(linesigma_snr_min, lf.fitted[c].snr)
                /\ FLe(F(linesigma_floor(c)), lf.fitted[c].sigma)
                /\ FLe(lf.fitted[c].sigma, F(5 * init_linesigma(c))))

\* C25 as stated: the S/N exceeds 1.5 and the width lies within
\* [anchor, 5 x anchor]
C25_FromAnchor ==
    \A c \in {"narrow", "balmer", "uv"} :
        estimated_class(c) =>
            returns_fit_iff(c,
                /\ FLt(linesigma_snr_min, lf.fitted[c].snr)
                /\ FLe(F(init_linesigma(c)), lf.fitted[c].sigma)
                /\ FLe(lf.fitted[c].sigma, F(5 * init_linesigma(c))))

\* a call that returned a fitted width of the forbidden lines below the
\* default width, and fell back to the default for the Balmer lines
C25_Witness ==
    /\ lf.pc = "returned"
    /\ lf.linesigma["narrow"] = lf.fitted["narrow"]
    /\ FLt(lf.linesigma["narrow"].sigma, F(init_linesigma_narrow))
    /\ lf.linesigma["balmer"] = default_width("balmer")
    /\ lf.fitted["balmer"] # default_width("balmer")


-----------------------------------------------------------------------------
(* build_linemask (continuum.py): the mask of the emission lines and, line  *)
(* by line, the pixels of the line and of its local continuum. The pixels   *)
(* are 1 Angstrom wide and start at 1 Angstrom, every pixel has ivar > 0    *)
(* and smoothsigma > 0, the lines share one width (nsig*sigma Angstrom),    *)
(* and the S/N of a line is the same in all its pixels. Arrays of booleans  *)
(* are the sets of their True pixels. lf holds the call.                    *)

\* the lengths of the spectra
MaskSpectra == {10, 30, 40}

\* nsig*sigma of the lines, in Angstrom
MaskHalfWidths == {3, 6}

\* the redshifted wavelengths of the first and of the second line
FirstLineWaves == {1, 4, 12}

SecondLineWaves == {8, 18, 25, 36}

\* the S/N of the pixels of a line: below and above snr_strong
MaskSnrs == {1, 5}

snr_strong == 3

\* the number of continuum pixels below which build_linemask looks further
min_contpix == 10

MaskLine(name, zlinewave, snr) == [name |-> name, zlinewave |-> zlinewave, snr |-> snr]

new_linemask(npix, h, lines) ==
    [pc |-> "build_linemask", npix |-> npix, h |-> h, lines |-> lines,
     linemask_all |-> {}, linemask |-> {}, linename |-> <<>>,
     linepix |-> <<>>, contpix |-> <<>>]

InitMask ==
    /\ ctor = None /\ grids = None /\ cf = None /\ data = None /\ cs = None
    /\ lm = None /\ batch = None /\ raw = None
    /\ lf \in {new_linemask(npix, h, <<MaskLine("first", z1, s1),
                                       MaskLine("second", z2, s2)>>) :
                 npix \in MaskSpectra, h \in MaskHalfWidths,
                 z1 \in FirstLineWaves, z2 \in SecondLineWaves,
                 s1 \in MaskSnrs, s2 \in MaskSnrs}

\* inrange = (zlinewaves > np.min(wave)) * (zlinewaves < np.max(wave))
mask_inrange(l, npix) == l.zlinewave > 1 /\ l.zlinewave < npix

\* I = (wave >= zlinewave - nsig*sigma) * (wave <= zlinewave + nsig*sigma)
line_pixels(l, npix, h) ==
    {w \in 1..npix : w >= l.zlinewave - h /\ w <= l.zlinewave + h}

\* the line is strong: its S/N exceeds snr_strong in all its pixels
is_strong(l) == l.snr > snr_strong

\* the union of the pixels of the lines in range that satisfy `which`
RECURSIVE masked_by(_, _, _, _)
masked_by(lines, npix, h, strong_only) ==
    IF lines = <<>> THEN {}
    ELSE (IF mask_inrange(Head(lines), npix)
             /\ (~strong_only \/ is_strong(Head(lines)))
          THEN line_pixels(Head(lines), npix, h) ELSE {})
         \cup masked_by(Tail(lines), npix, h, strong_only)

\* Jblu or Jred out to `far` times nsig*sigma, without the pixels of `strong`
window_pixels(l, npix, h, far, strong) ==
    {w \in 1..npix :
        /\ \/ (w > l.zlinewave - far * h /\ w < l.zlinewave - h)
           \/ (w < l.zlinewave + far * h /\ w > l.zlinewave + h)
        /\ w \notin strong}

\* the pixels of the local continuum: out to 2 nsig*sigma, then to
\* 3 nsig*sigma, then to 2 nsig*sigma with the pixels of the strong lines
further_out(J, l, npix, h, strong) ==
    IF Cardinality(J) < min_contpix THEN window_pixels(l, npix, h, 3, strong) ELSE J

with_strong(J, l, npix, h) ==
    IF Cardinality(J) < min_contpix THEN window_pixels(l, npix, h, 2, {}) ELSE J

continuum_pixels(l, npix, h, strong) ==
    with_strong(further_out(window_pixels(l, npix, h, 2, strong), l, npix, h, strong),
                l, npix, h)

\* if np.sum(I) > 0 and np.sum(J) > 0: the line goes into the lists
listed_with_ten(I, J) == Cardinality(I) > 0 /\ Cardinality(J) >= min_contpix

listed(I, J) == Cardinality(I) > 0 /\ Cardinality(J) > 0

\* the lines in range that go into linename, linepix and contpix
RECURSIVE line_lists(_, _, _, _)
line_lists(lines, npix, h, strong) ==
    IF lines = <<>> THEN <<>>
    ELSE (IF mask_inrange(Head(lines), npix)
             /\ listed(line_pixels(Head(lines), npix, h),
                       continuum_pixels(Head(lines), npix, h, strong))
          THEN << [linename |-> Head(lines).name,
                   linepix |-> line_pixels(Head(lines), npix, h),
                   contpix |-> continuum_pixels(Head(lines), npix, h, strong)] >>
          ELSE <<>>)
         \o line_lists(Tail(lines), npix, h, strong)

\* the dictionary build_linemask returns
linemask_dict(l, lists) ==
    [l EXCEPT !.pc = "returned",
        !.linemask_all = masked_by(l.lines, l.npix, l.h, FALSE),
        !.linemask = masked_by(l.lines, l.npix, l.h, TRUE),
        !.linename = np_array([i \in 1..Len(lists) |-> lists[i].linename]),
        !.linepix = np_array([i \in 1..Len(lists) |-> lists[i].linepix]),
        !.contpix = np_array([i \in 1..Len(lists) |-> lists[i].contpix])]

build_linemask ==
    /\ lf.pc = "build_linemask"
    /\ lf' = linemask_dict(lf, line_lists(lf.lines, lf.npix, lf.h,
                                          masked_by(lf.lines, lf.npix, lf.h, TRUE)))
    /\ UNCHANGED <<ctor, grids, cf, data, cs, lm, batch, raw>>

NextMask == build_linemask

SpecMask == InitMask /\ [][NextMask]_vars

-----------------------------------------------------------------------------
(* C26 *)

\* the line is in linename
in_lists(l) == \E i \in 1..Len(lf.linename) : lf.linename[i] = l.name

\* the pixels of the local continuum of the line after the two further
\* looks, computed from the returned mask of the strong lines
local_continuum(l) ==
    LET near == window_pixels(l, lf.npix, lf.h, 2, lf.linemask)
        far  == window_pixels(l, lf.npix, lf.h, 3, lf.linemask)
        bare == window_pixels(l, lf.npix, lf.h, 2, {})
    IN  IF Cardinality(near) >= min_contpix THEN near
        ELSE IF Cardinality(far) >= min_contpix THEN far
        ELSE bare

\* the pixels of the line are set in linemask_all
in_global_mask(l) ==
    \A w \in 1..lf.npix :
        (w >= l.zlinewave - lf.h /\ w <= l.zlinewave + lf.h) => w \in lf.linemask_all

\* the lines in range of a call that returned
lines_in_range ==
    {l \in {lf.lines[i] : i \in 1..Len(lf.lines)} :
        lf.pc = "returned" /\ l.zlinewave > 1 /\ l.zlinewave < lf.npix}

\* C26 (as the code has it): in build_linemask a line in range is left out
\* of the linename, linepix and contpix lists if and only if its local
\* continuum window contains no pixel after widening the search range and
\* dropping the strong-line exclusion; its pixels stay set in linemask_all.
C26_DroppedWithoutContinuum ==
    \A l \in lines_in_range :
        /\ in_lists(l) <=> Cardinality(local_continuum(l)) > 0
        /\ in_global_mask(l)

\* C26 as stated: a line with fewer than 10 continuum pixels is left out
C26_DroppedBelowTen ==
    \A l \in lines_in_range :
        Cardinality(local_continuum(l)) < min_contpix =>
            ~in_lists(l) /\ in_global_mask(l)

\* a line in range without any pixel of local continuum was left out of the
\* lists, and the other line was listed
C26_Witness ==
    /\ \E l \in lines_in_range :
          Cardinality(local_continuum(l)) = 0 /\ ~in_lists(l) /\ in_global_mask(l)
    /\ \E l \in lines_in_range : in_lists(l)


-----------------------------------------------------------------------------
(* The template library in the batch drivers: nyxgalaxy.main with           *)
(* nyxfit_one, DESISpectra.read_and_unpack with unpack_one_spectrum, and    *)
(* the QA driver with desiqa_one. ContinuumTools.__init__ reads the SSP     *)
(* file (fitsio.read) whenever an instance is built, and cache_templates    *)
(* reads the template file whenever it is called. batch holds the driver:   *)
(* the reads before the objects are handed out, the reads by the tasks of   *)
(* the objects, and the library the driver hands to its tasks.              *)

\* the largest number of objects of a driver
MaxTasks == 4

drivers == {"nyxgalaxy", "read_and_unpack", "fastspecfit_qa"}

new_driver(driver, nobj, mp) ==
    [driver |-> driver, pc |-> "main", nobj |-> nobj, mp |-> mp,
     reads |-> 0, task_reads |-> 0, done |-> 0, library |-> "none"]

InitCache ==
    /\ ctor = None /\ grids = None /\ cf = None /\ data = None /\ cs = None
    /\ lm = None /\ lf = None /\ raw = None
    /\ batch \in {new_driver(d, n, mp) :
                    d \in drivers, n \in 1..MaxTasks, mp \in {1, 2}}

\* the driver has read the template file `reads` times and hands the
\* objects out
fan_out(reads, library) ==
    /\ batch' = [batch EXCEPT !.pc = "tasks", !.reads = reads,
                              !.library = library]
    /\ UNCHANGED <<ctor, grids, cf, data, cs, lm, lf, raw>>

\* the task of one object, which reads the template file `reads` times
task(reads) ==
    /\ batch.pc = "tasks" /\ batch.done < batch.nobj
    /\ batch' = [batch EXCEPT !.done = @ + 1, !.task_reads = @ + reads]
    /\ UNCHANGED <<ctor, grids, cf, data, cs, lm, lf, raw>>

\* nyxgalaxy.main: CFit = ContinuumFit(...) and EMFit = EMLineFit(...) each
\* run ContinuumTools.__init__, and both go to every task in fitargs
nyxgalaxy_main ==
    /\ batch.driver = "nyxgalaxy" /\ batch.pc = "main"
    /\ fan_out(2, "CFit, EMFit")

\* nyxfit_one(indx, data, CFit, EMFit, out): fits with the instances given
nyxfit_one_task ==
    /\ batch.driver = "nyxgalaxy"
    /\ task(0)

\* read_and_unpack: CTools = ContinuumTools(fphoto=self.fphoto); the tasks
\* are given fphoto, not CTools
read_and_unpack ==
    /\ batch.driver = "read_and_unpack" /\ batch.pc = "main"
    /\ fan_out(1, "none")

\* unpack_one_spectrum: CTools = ContinuumTools(fphoto=fphoto)
unpack_one_spectrum_task ==
    /\ batch.driver = "read_and_unpack"
    /\ task(1)

\* the QA driver: qaargs carry the name of the template file
fastspecfit_qa ==
    /\ batch.driver = "fastspecfit_qa" /\ batch.pc = "main"
    /\ fan_out(0, "none")

\* desiqa_one: templatecache = cache_templates(templates, ...) and, in
\* qa_fastspec, CTools = ContinuumTools(fphoto=fphoto, ...)
desiqa_one ==
    /\ batch.driver = "fastspecfit_qa"
    /\ task(2)

\* P.map, or the list comprehension, returns
tasks_return ==
    /\ batch.pc = "tasks" /\ batch.done = batch.nobj
    /\ batch' = [batch EXCEPT !.pc = "returned"]
    /\ UNCHANGED <<ctor, grids, cf, data, cs, lm, lf, raw>>

NextCache ==
    \/ nyxgalaxy_main
    \/ nyxfit_one_task
    \/ read_and_unpack
    \/ unpack_one_spectrum_task
    \/ fastspecfit_qa
    \/ desiqa_one
    \/ tasks_return

SpecCache == InitCache /\ [][NextCache]_vars

-----------------------------------------------------------------------------
(* C23 *)

\* C23: in every batch driver the template library is loaded exactly once,
\* before work is handed to any worker, and no task of an object (fit,
\* unpacking of a spectrum, QA) reads or rebuilds the template cache.
C23_LoadedOnceBeforeTasks ==
    /\ batch.pc \in {"tasks", "returned"} => batch.reads = 1
    /\ batch.task_reads = 0

\* the second half alone: no task reads the templates
C23_NoReadInTasks == batch.task_reads = 0

=============================================================================
